---- MODULE Spec2Model ----
(***************************************************************************)
(* deploy-beanstalk: deployToGroup and its helpers (src/src/deploy.ts,     *)
(* src/src/helpers/create-app-version.ts lines 1-72,                       *)
(* src/unnamed/part_006 (deploy-app-version-to-env),                       *)
(* src/src/helpers/healthiness.ts lines 1-206, src/src/helpers/Errors.ts). *)
(*                                                                         *)
(* One run of deployToGroup is a state machine.  Every await on the remote *)
(* client is a step boundary: a request is issued in one step and its      *)
(* response (any response the client's types allow, or a rejection) is     *)
(* consumed in a later step.  Optional values (force, unhealthyStatuses,   *)
(* httpStatusCode, Status, ...) are sequences of length 0 (undefined) or 1.*)
(***************************************************************************)
EXTENDS Integers, Sequences, FiniteSets, TLC

VARIABLES
  props,        \* the IDeployToGroupProps of the run
  pc,           \* the stage deployToGroup is in
  versionTasks, \* the create() promises of createAppVersionsForGroup
  gate,         \* the running call of waitForGroupHealthiness
  deployTasks,  \* the deploy() promises of deployAppVersionsToGroup
  triggerErr,   \* triggerErr.errors of deployAppVersionsToGroup
  deployErrs,   \* deployErrs.errors of deploySteps
  calls,        \* the commands sent to the client so far, in order
  sleeps,       \* the stages that slept so far, in order
  observed,     \* what the last DescribeEnvironments response held
  response,     \* a response that arrived and was not yet looked at
  outcome       \* the error deployToGroup rejected with, if it did

vars == <<props, pc, versionTasks, gate, deployTasks, triggerErr, deployErrs,
          calls, sleeps, observed, response, outcome>>

(* ------------------------------ bounds -------------------------------- *)

\* Longest group.environments of a run.
MaxEnvs == 2

\* Largest attempts value of a health-check configuration.
MaxAttempts == 2

(* ------------------------------ inputs -------------------------------- *)

\* Application names.  "2" is an integer-like name: JavaScript enumerates
\* such keys of an object before all others.
Apps == {"AppOne", "2"}

\* group.versionProps.label, and the label an environment runs before.
Label == "TestLabel"
OLD_VERSION == "OLD_VERSION"

\* Name of an environment the group does not hold.
Unrequested == "UnrequestedEnvironment"

EnvName(i) == "TestEnvironment" \o ToString(i)

\* group.environments: every list of at most MaxEnvs environments over Apps,
\* with pairwise different names.
Groups ==
  UNION { { [i \in 1..n |-> [app |-> f[i], name |-> EnvName(i)]] : f \in [1..n -> Apps] }
          : n \in 0..MaxEnvs }

Some(x) == <<x>>
None == <<>>

\* a ?? b
Coalesce(opt, default) == IF opt = None THEN default ELSE opt[1]

\* IHealthCheckProps (timeBetweenAttemptsMs only sets the length of a sleep).
HealthCheckProps ==
  [attempts : 0..MaxAttempts, unhealthyStatuses : {None, Some({"Severe"})}]

\* IDeployToGroupProps without its two IHealthCheckProps, which are drawn when
\* preDeployHealthcheck and postDeployHealthcheck read them.
DeployToGroupProps ==
  [environments : Groups,
   errorIfExists : BOOLEAN,
   force : {None, Some(TRUE), Some(FALSE)}]

\* A run without force is a real run.
DEFAULT_FORCE_TRUE == TRUE

DEFAULT_FORCE == FALSE

AWS_EB_HEALTH_CHECK_UNHEALTHY_STATES == {"Severe", "Degraded", "Warning"}

(* --------------------------- remote responses ------------------------- *)

\* A response to DescribeApplicationVersions: rejected, or ApplicationVersions
\* undefined, empty or holding one version.
DescribeVersionsResponses ==
  [rejected : {TRUE}, ApplicationVersions : {None}]
  \cup [rejected : {FALSE}, ApplicationVersions : {None, Some(0), Some(1)}]

\* A response to CreateApplicationVersion or UpdateEnvironment: rejected, or
\* $metadata.httpStatusCode undefined or a number.
StatusResponses ==
  [rejected : {TRUE}, httpStatusCode : {None}]
  \cup [rejected : {FALSE}, httpStatusCode : {None, Some(0), Some(199), Some(200), Some(299), Some(300), Some(400)}]

\* What the remote may report of one environment.
EnvReports ==
  { [Status |-> Some("Ready"),    HealthStatus |-> Some("Ok"),      VersionLabel |-> Label],
    [Status |-> Some("Ready"),    HealthStatus |-> Some("Ok"),      VersionLabel |-> OLD_VERSION],
    [Status |-> Some("Ready"),    HealthStatus |-> Some("Warning"), VersionLabel |-> Label],
    [Status |-> Some("Ready"),    HealthStatus |-> Some("Severe"),  VersionLabel |-> Label],
    [Status |-> Some("Updating"), HealthStatus |-> Some("Ok"),      VersionLabel |-> Label],
    [Status |-> None,             HealthStatus |-> Some("Ok"),      VersionLabel |-> Label],
    [Status |-> Some("Ready"),    HealthStatus |-> None,            VersionLabel |-> Label] }

\* What it may report of an environment that was not asked for.
UnrequestedReports ==
  { [Status |-> Some("Ready"),    HealthStatus |-> Some("Ok"),      VersionLabel |-> Label],
    [Status |-> Some("Updating"), HealthStatus |-> Some("Ok"),      VersionLabel |-> Label] }

EnvironmentDescription(name, r) ==
  [EnvironmentName |-> name, Status |-> r.Status, HealthStatus |-> r.HealthStatus,
   VersionLabel |-> r.VersionLabel]

\* The sub-sequence of s at the positions in keep.
RECURSIVE Pick(_, _, _)
Pick(s, keep, i) ==
  IF i > Len(s) THEN <<>>
  ELSE (IF i \in keep THEN <<s[i]>> ELSE <<>>) \o Pick(s, keep, i + 1)

\* The Environments lists a DescribeEnvironments for envNames may carry: any
\* subset of the requested environments, each with any report, followed or not
\* by one environment that was not requested.
EnvironmentLists(envNames) ==
  LET n == Len(envNames)
      requested == { Pick([i \in 1..n |-> EnvironmentDescription(envNames[i], f[i])], keep, 1) :
                       f \in [1..n -> EnvReports], keep \in SUBSET (1..n) }
      extra == { <<>> } \cup { <<EnvironmentDescription(Unrequested, r)>> : r \in UnrequestedReports }
  IN { l \o x : l \in requested, x \in extra }

DescribeEnvironmentsResponses(envNames) ==
  [rejected : {TRUE}, Environments : {None}]
  \cup [rejected : {FALSE}, Environments : {None} \cup { Some(l) : l \in EnvironmentLists(envNames) }]

(* ------------------------------- errors ------------------------------- *)

\* An error value: its class, what its message says (msg, and target: the
\* applications or environments the message names) and, for a DBError, its
\* errors list (a class without one holds <<>>).
Error(msg, target) ==
  [type |-> "Error", msg |-> msg, target |-> target, errors |-> <<>>]

DBError(msg, errors) ==
  [type |-> "DBError", msg |-> msg, target |-> <<>>, errors |-> errors]

DBCreateApplicationVersionError(appName, error) ==
  [type |-> "DBCreateApplicationVersionError", msg |-> error.msg, target |-> <<appName>>,
   errors |-> <<>>]

DBTriggerDeployError(envName, error) ==
  [type |-> "DBTriggerDeployError", msg |-> error.msg, target |-> <<envName>>, errors |-> <<>>]

DBGroupDeployTriggerError(msg, errors) ==
  [type |-> "DBGroupDeployTriggerError", msg |-> msg, target |-> <<>>, errors |-> errors]

DBHealthinessCheckError(msg, errors) ==
  [type |-> "DBHealthinessCheckError", msg |-> msg, target |-> <<>>, errors |-> errors]

\* e instanceof DBError
InstanceOfDBError(e) ==
  e.type \in {"DBError", "DBGroupDeployTriggerError", "DBHealthinessCheckError"}

\* The rejection of a request by the remote client.
ClientError == Error("the client rejected the request", <<>>)

(* ------------------------------ commands ------------------------------ *)

\* A request sent to the remote client; during is the stage that sent it.
Command(cmd, app, names, during) ==
  [cmd |-> cmd, ApplicationName |-> app, names |-> names, during |-> during]

DescribeApplicationVersionsCommand(app) ==
  Command("DescribeApplicationVersions", app, <<Label>>, "createAppVersions")

CreateApplicationVersionCommand(app) ==
  Command("CreateApplicationVersion", app, <<Label>>, "createAppVersions")

DescribeEnvironmentsCommand(app, envNames, during) ==
  Command("DescribeEnvironments", app, envNames, during)

UpdateEnvironmentCommand(env) ==
  Command("UpdateEnvironment", env.app, <<env.name>>, "deployAppVersions")

(* --------------------------- pure functions --------------------------- *)

\* !x of an optional boolean is TRUE unless x is true.
Not(opt) == ~Coalesce(opt, FALSE)

\* The upper limit of the range is taken in.
IsSuccessStatusUpTo300(statusCode) ==
  /\ statusCode # None
  /\ statusCode[1] # 0
  /\ statusCode[1] >= 200
  /\ statusCode[1] <= 300

\* statusCode && statusCode >= 200 && statusCode < 300
IsSuccessStatus(statusCode) ==
  /\ statusCode # None
  /\ statusCode[1] # 0
  /\ statusCode[1] >= 200
  /\ statusCode[1] < 300

\* getExistingVersionsResp.ApplicationVersions ? ....length > 0 : false
checkApplicationVersionExists(resp) ==
  IF resp.ApplicationVersions = None THEN FALSE ELSE resp.ApplicationVersions[1] > 0

\* The elements of s, each once, in the order of their first occurrence.
RECURSIVE FirstOccurrences(_)
FirstOccurrences(s) ==
  IF s = <<>> THEN <<>>
  ELSE LET before == FirstOccurrences(SubSeq(s, 1, Len(s) - 1))
           x == s[Len(s)]
       IN IF \E i \in DOMAIN before : before[i] = x THEN before ELSE Append(before, x)

AppOf(envs) == [i \in DOMAIN envs |-> envs[i].app]

\* One create() per environment, shared applications included.
appsOfAllEnvironments(envs) == AppOf(envs)

\* The applications createAppVersionsForGroup creates a version for: each
\* application once (appsWithCreatedVersions.includes), in the order of its
\* first environment.
appsWithCreatedVersions(envs) == FirstOccurrences(AppOf(envs))

\* Integer-like property names, which for...in enumerates first.
IsArrayIndex(app) == app \in {"2"}

\* groupEnvsByApp: the environments of each application, in group order.
groupEnvsByApp(envs) ==
  [app \in {envs[i].app : i \in DOMAIN envs} |-> SelectSeq(envs, LAMBDA e : e.app = app)]

\* The keys are visited in the order in which they were added, whatever
\* they look like.
ForInKeysAsAdded(envs) == FirstOccurrences(AppOf(envs))

\* The order in which `for (const key in beansToDescribe)` visits the keys:
\* integer-like names first (Apps holds one), then the others in the order
\* in which they were added.
ForInKeys(envs) ==
  LET added == FirstOccurrences(AppOf(envs))
  IN SelectSeq(added, IsArrayIndex) \o SelectSeq(added, LAMBDA a : ~IsArrayIndex(a))

NoStatuses == [healthy |-> <<>>, unhealthy |-> <<>>]

\* The unhealthyStatuses given are ignored for the default ones.
ClassifyEnvironmentByDefault(envDesc, unhealthyStatuses, expectedVersionLabel) ==
  LET isInHealthyState == envDesc.HealthStatus[1] \notin AWS_EB_HEALTH_CHECK_UNHEALTHY_STATES
  IN IF envDesc.Status[1] = "Ready" /\ isInHealthyState
     THEN IF expectedVersionLabel = None THEN "healthy"
          ELSE IF envDesc.VersionLabel = expectedVersionLabel[1] THEN "healthy"
          ELSE "ready but not the expected version"
     ELSE "not ready and healthy"

\* One step of the reduce of getEnvironmentsHealth over a described environment.
ClassifyEnvironment(envDesc, unhealthyStatuses, expectedVersionLabel) ==
  LET isInHealthyState == envDesc.HealthStatus[1] \notin unhealthyStatuses
  IN IF envDesc.Status[1] = "Ready" /\ isInHealthyState
     THEN IF expectedVersionLabel = None THEN "healthy"
          ELSE IF envDesc.VersionLabel = expectedVersionLabel[1] THEN "healthy"
          ELSE "ready but not the expected version"
     ELSE "not ready and healthy"

\* An environment without Status or HealthStatus counts as unhealthy.
RECURSIVE getEnvironmentsHealthLenient(_, _, _)
getEnvironmentsHealthLenient(envs, unhealthyStatuses, expectedVersionLabel) ==
  IF envs = <<>> THEN [threw |-> None, healthy |-> <<>>, unhealthy |-> <<>>]
  ELSE LET previousValue == getEnvironmentsHealthLenient(SubSeq(envs, 1, Len(envs) - 1),
                                                         unhealthyStatuses, expectedVersionLabel)
           envDesc == envs[Len(envs)]
       IN IF envDesc.Status = None \/ envDesc.HealthStatus = None
          THEN [previousValue EXCEPT !.unhealthy = Append(@, envDesc.EnvironmentName)]
          ELSE LET class == ClassifyEnvironment(envDesc, unhealthyStatuses, expectedVersionLabel)
               IN IF class = "healthy"
                  THEN [previousValue EXCEPT !.healthy = Append(@, envDesc.EnvironmentName)]
                  ELSE [previousValue EXCEPT !.unhealthy = Append(@, envDesc.EnvironmentName)]

\* getEnvironmentsHealth: the environments partitioned, or the error thrown at
\* the first environment without Status or HealthStatus.
RECURSIVE getEnvironmentsHealth(_, _, _)
getEnvironmentsHealth(envs, unhealthyStatuses, expectedVersionLabel) ==
  IF envs = <<>> THEN [threw |-> None, healthy |-> <<>>, unhealthy |-> <<>>]
  ELSE LET previousValue == getEnvironmentsHealth(SubSeq(envs, 1, Len(envs) - 1),
                                                  unhealthyStatuses, expectedVersionLabel)
           envDesc == envs[Len(envs)]
       IN IF previousValue.threw # None THEN previousValue
          ELSE IF envDesc.Status = None \/ envDesc.HealthStatus = None
          THEN [previousValue EXCEPT !.threw =
                  Some(Error("status could not be retrieved", <<envDesc.EnvironmentName>>))]
          ELSE LET class == ClassifyEnvironment(envDesc, unhealthyStatuses, expectedVersionLabel)
               IN IF class = "healthy"
                  THEN [previousValue EXCEPT !.healthy = Append(@, envDesc.EnvironmentName)]
                  ELSE [previousValue EXCEPT !.unhealthy = Append(@, envDesc.EnvironmentName)]

\* The requested names no returned environment carries.
Missing(envNames, Environments) ==
  SelectSeq(envNames, LAMBDA n : ~\E i \in DOMAIN Environments : Environments[i].EnvironmentName = n)

\* Only a response longer than the request counts.
CountExceeds(Environments, envs) == Len(Environments) > Len(envs)

\* The number of environments returned is not checked.
CountDiffersNever(Environments, envs) == FALSE

\* The response is checked by name: it fails when a requested name is not in it.
CountDiffersByName(Environments, envs) ==
  Missing([i \in DOMAIN envs |-> envs[i].name], Environments) # <<>>

\* resp.Environments.length != envs.length
CountDiffers(Environments, envs) == Len(Environments) # Len(envs)

(* ------------------------------- state -------------------------------- *)

\* No check compares version labels.
checkVersionNever(stage) == FALSE

\* Every check compares version labels.
checkVersionAlways(stage) == TRUE

\* checkVersion: false in preDeployHealthcheck, true in postDeployHealthcheck
checkVersion(stage) == stage = "postDeployHealthcheck"

\* gate is the call of waitForGroupHealthiness: its props (IHealthCheckPropsPrivate:
\* the health-check props of the stage, checkVersion), where it is at, and the
\* variables attempt, key (the place in the for...in loop) and statuses, and
\* the error it threw, if it did.
IdleGate ==
  [at |-> "idle", attempts |-> 0, unhealthyStatuses |-> None, checkVersion |-> FALSE,
   attempt |-> 0, key |-> 0, statuses |-> NoStatuses, error |-> None]

\* waitForGroupHealthiness called by stage with healthCheckProps, before the
\* first iteration of its for loop.
Called(stage, healthCheckProps) ==
  [at |-> "for", attempts |-> healthCheckProps.attempts,
   unhealthyStatuses |-> healthCheckProps.unhealthyStatuses, checkVersion |-> checkVersion(stage),
   attempt |-> 1, key |-> 0, statuses |-> NoStatuses, error |-> None]

\* No DescribeEnvironments response is being looked at.
NoObservation == [requested |-> 0, returned |-> 0, absent |-> <<>>]

Init ==
  /\ props \in DeployToGroupProps
  /\ pc = "deployToGroup"
  /\ versionTasks = <<>>
  /\ gate = IdleGate
  /\ deployTasks = <<>>
  /\ triggerErr = <<>>
  /\ deployErrs = <<>>
  /\ calls = <<>>
  /\ sleeps = <<>>
  /\ observed = NoObservation
  /\ response = None
  /\ outcome = None

\* The promise deployToGroup returned is rejected with e.
Throw(e) ==
  /\ pc' = "rejected"
  /\ outcome' = Some(e)

(* ----------------------- createAppVersionsForGroup -------------------- *)

\* dryRun: !props.force
DryRun == Not(props.force)

\* Each create() sends CreateApplicationVersion before its existence check.
createAppVersionsForGroupCreatesFirst ==
  /\ pc = "deployToGroup"
  /\ LET apps == appsWithCreatedVersions(props.environments)
     IN /\ versionTasks' = [i \in DOMAIN apps |-> [app |-> apps[i], state |-> "describing", exists |-> None, reason |-> None]]
        /\ calls' = calls \o [i \in DOMAIN apps |-> CreateApplicationVersionCommand(apps[i])]
                          \o [i \in DOMAIN apps |-> DescribeApplicationVersionsCommand(apps[i])]
  /\ pc' = "createAppVersions"
  /\ UNCHANGED <<props, gate, deployTasks, triggerErr, deployErrs, sleeps, outcome, observed, response>>

\* deployToGroup, preDeploySteps and the forEach of createAppVersionsForGroup:
\* one create() per application, each running up to the await of its
\* DescribeApplicationVersions request.
createAppVersionsForGroup ==
  /\ pc = "deployToGroup"
  /\ LET apps == appsWithCreatedVersions(props.environments)
     IN /\ versionTasks' = [i \in DOMAIN apps |-> [app |-> apps[i], state |-> "describing", exists |-> None, reason |-> None]]
        /\ calls' = calls \o [i \in DOMAIN apps |-> DescribeApplicationVersionsCommand(apps[i])]
  /\ pc' = "createAppVersions"
  /\ UNCHANGED <<props, gate, deployTasks, triggerErr, deployErrs, sleeps, outcome, observed, response>>

Settled(task) == task.state \in {"fulfilled", "rejected"}

Fulfilled(task) == [task EXCEPT !.state = "fulfilled"]

\* The value create() got from checkApplicationVersionExists.
Checked(task, exists) == [task EXCEPT !.exists = Some(exists)]

\* create()'s catch: the task is rejected with a DBCreateApplicationVersionError.
RejectedCreate(task, e) ==
  [task EXCEPT !.state = "rejected", !.reason = Some(DBCreateApplicationVersionError(task.app, e))]

\* The request goes out whatever props.dryRun is.
SendsCreateApplicationVersionAlways(dryRun) == TRUE

\* The request never goes out.
SendsCreateApplicationVersionNever(dryRun) == FALSE

\* createApplicationVersion sends its request unless props.dryRun.
SendsCreateApplicationVersion(dryRun) == ~dryRun

\* An existing version is an error whatever errorIfExists is.
ThrowsIfExistsAlways(errorIfExists) == TRUE

\* A dry run never treats an existing version as an error.
ThrowsIfExistsUnlessDryRun(errorIfExists) == errorIfExists /\ ~Not(props.force)

\* create() throws on an existing version: props.version.errorIfExists ?? false
ThrowsIfExists(errorIfExists) == errorIfExists

\* create() resumed with the response to DescribeApplicationVersions.
create(i, resp) ==
  /\ pc = "createAppVersions"
  /\ i \in DOMAIN versionTasks
  /\ versionTasks[i].state = "describing"
  /\ LET task == versionTasks[i]
     IN IF resp.rejected
        THEN /\ versionTasks' = [versionTasks EXCEPT ![i] = RejectedCreate(task, ClientError)]
             /\ calls' = calls
        ELSE IF checkApplicationVersionExists(resp)
        THEN /\ versionTasks' = [versionTasks EXCEPT ![i] =
                  IF ThrowsIfExists(props.errorIfExists)
                  THEN RejectedCreate(Checked(task, TRUE), Error("it already exists", <<task.app>>))
                  ELSE Fulfilled(Checked(task, TRUE))]
             /\ calls' = calls
        ELSE IF SendsCreateApplicationVersion(DryRun)
        THEN /\ versionTasks' = [versionTasks EXCEPT ![i] = [Checked(task, FALSE) EXCEPT !.state = "creating"]]
             /\ calls' = Append(calls, CreateApplicationVersionCommand(task.app))
        ELSE /\ versionTasks' = [versionTasks EXCEPT ![i] = Fulfilled(Checked(task, FALSE))]
             /\ calls' = calls
  /\ UNCHANGED <<props, pc, gate, deployTasks, triggerErr, deployErrs, sleeps, outcome, observed, response>>

\* createApplicationVersion resumed with the response to CreateApplicationVersion.
createApplicationVersion(i, resp) ==
  /\ pc = "createAppVersions"
  /\ i \in DOMAIN versionTasks
  /\ versionTasks[i].state = "creating"
  /\ LET task == versionTasks[i]
     IN versionTasks' = [versionTasks EXCEPT ![i] =
          IF resp.rejected THEN RejectedCreate(task, ClientError)
          ELSE IF IsSuccessStatus(resp.httpStatusCode) THEN Fulfilled(task)
          ELSE RejectedCreate(task, Error("Create application version failed", <<task.app>>))]
  /\ UNCHANGED <<props, pc, gate, deployTasks, triggerErr, deployErrs, calls, sleeps, outcome, observed, response>>

\* Only the first rejected result is reported.
verifyPromisesSettledFirst(results) ==
  LET rejected == SelectSeq(results, LAMBDA r : r.state = "rejected")
  IN IF rejected = <<>> THEN <<>> ELSE rejected[1].reason

\* The reasons of the rejected results, the last result first.
RECURSIVE verifyPromisesSettledReversed(_)
verifyPromisesSettledReversed(results) ==
  IF results = <<>> THEN <<>>
  ELSE (IF results[Len(results)].state = "rejected" THEN results[Len(results)].reason ELSE <<>>)
       \o verifyPromisesSettledReversed(SubSeq(results, 1, Len(results) - 1))

\* verifyPromisesSettled: the reasons of the rejected results, in the order of
\* the results.
RECURSIVE verifyPromisesSettled(_)
verifyPromisesSettled(results) ==
  IF results = <<>> THEN <<>>
  ELSE verifyPromisesSettled(SubSeq(results, 1, Len(results) - 1))
       \o (IF results[Len(results)].state = "rejected" THEN results[Len(results)].reason ELSE <<>>)

\* Provisioning counts as failed only when every create() was rejected.
ProvisioningFailedForAll(results) ==
  results # <<>> /\ \A i \in DOMAIN results : results[i].state = "rejected"

\* verifyPromisesSettled throws: errs.length > 0
ProvisioningFailed(results) == Len(verifyPromisesSettled(results)) > 0

\* The promise settles with the first rejection, as that of Promise.all does.
allSettledOrOneRejected(results) ==
  \/ \A i \in DOMAIN results : Settled(results[i])
  \/ \E i \in DOMAIN results : results[i].state = "rejected"

\* Promise.allSettled(versionPromises) settles when every create() has.
allSettled(results) == \A i \in DOMAIN results : Settled(results[i])

\* Promise.allSettled has every result: verifyPromisesSettled throws, and
\* preDeploySteps rethrows, or preDeployHealthcheck starts.
createAppVersionsSettledWith(preDeployHealthCheckProps) ==
  /\ pc = "createAppVersions"
  /\ allSettled(versionTasks)
  /\ LET errs == verifyPromisesSettled(versionTasks)
     IN IF ProvisioningFailed(versionTasks)
        THEN /\ Throw(DBError("At least one async process failed", errs))
             /\ gate' = gate
        ELSE /\ pc' = "preDeployHealthcheck"
             /\ \E healthCheckProps \in preDeployHealthCheckProps :
                  gate' = Called("preDeployHealthcheck", healthCheckProps)
             /\ outcome' = outcome
  /\ UNCHANGED <<props, versionTasks, deployTasks, triggerErr, deployErrs, calls, sleeps, observed, response>>

createAppVersionsSettled == createAppVersionsSettledWith(HealthCheckProps)

(* ----------------------- waitForGroupHealthiness ---------------------- *)

GateStages == {"preDeployHealthcheck", "postDeployHealthcheck"}

\* force: props.force ?? DEFAULT_FORCE
Force == Coalesce(props.force, DEFAULT_FORCE)

\* The error of the pre-deploy check is dropped and deploySteps starts.
HealthcheckThrowsAndGoesOn(e) ==
  /\ gate' = [gate EXCEPT !.at = "threw", !.statuses = NoStatuses, !.error = Some(e)]
  /\ IF pc = "preDeployHealthcheck"
     THEN /\ pc' = "deploySteps"
          /\ outcome' = outcome
          /\ deployErrs' = deployErrs
     ELSE /\ deployErrs' = Append(deployErrs, [e EXCEPT !.msg = "postDeployHealthcheck(): " \o @])
          /\ Throw(DBError("deploySteps(): ", deployErrs'))

\* deploySteps does not catch the error of postDeployHealthcheck.
HealthcheckThrowsUncaught(e) ==
  /\ gate' = [gate EXCEPT !.at = "threw", !.statuses = NoStatuses, !.error = Some(e)]
  /\ deployErrs' = deployErrs
  /\ IF pc = "preDeployHealthcheck"
     THEN Throw([e EXCEPT !.msg = "preDeployHealthcheck(): " \o @])
     ELSE Throw([e EXCEPT !.msg = "postDeployHealthcheck(): " \o @])

\* waitForGroupHealthiness threw e.  preDeployHealthcheck prefixes the message
\* and preDeploySteps rethrows; in deploySteps the error of postDeployHealthcheck
\* joins deployErrs, which is then thrown.
HealthcheckThrows(e) ==
  /\ gate' = [gate EXCEPT !.at = "threw", !.statuses = NoStatuses, !.error = Some(e)]
  /\ IF pc = "preDeployHealthcheck"
     THEN /\ Throw([e EXCEPT !.msg = "preDeployHealthcheck(): " \o @])
          /\ deployErrs' = deployErrs
     ELSE /\ deployErrs' = Append(deployErrs, [e EXCEPT !.msg = "postDeployHealthcheck(): " \o @])
          /\ Throw(DBError("deploySteps(): ", deployErrs'))

\* deploySteps returns without looking at deployErrs.
HealthcheckReturnsAndResolves ==
  /\ gate' = [gate EXCEPT !.at = "returned", !.statuses = NoStatuses]
  /\ deployErrs' = deployErrs
  /\ pc' = IF pc = "preDeployHealthcheck" THEN "deploySteps" ELSE "resolved"
  /\ outcome' = outcome

\* waitForGroupHealthiness returned: deploySteps starts after the pre-deploy
\* check; after the post-deploy check deploySteps throws deployErrs if it holds
\* an error.
HealthcheckReturns ==
  /\ gate' = [gate EXCEPT !.at = "returned", !.statuses = NoStatuses]
  /\ deployErrs' = deployErrs
  /\ IF pc = "preDeployHealthcheck"
     THEN /\ pc' = "deploySteps"
          /\ outcome' = outcome
     ELSE IF Len(deployErrs) # 0
     THEN Throw(DBError("deploySteps(): ", deployErrs))
     ELSE /\ pc' = "resolved"
          /\ outcome' = outcome

\* The body of the loop runs once before props.attempts is looked at.
waitForGroupHealthinessAtLeastOnce ==
  /\ pc \in GateStages
  /\ gate.at = "for"
  /\ IF gate.attempt = 1 \/ gate.attempt <= gate.attempts
     THEN /\ gate' = [gate EXCEPT !.at = "getGroupHealth", !.key = 1, !.statuses = NoStatuses]
          /\ UNCHANGED <<pc, outcome, deployErrs>>
     ELSE HealthcheckThrows(DBHealthinessCheckError("Unexpected error checking group health.",
                              <<Error("Reached end of for loop...should never.", <<>>)>>))
  /\ UNCHANGED <<props, versionTasks, deployTasks, triggerErr, calls, sleeps, observed, response>>

\* The head of the for loop: attempt <= props.attempts, or the throw after it.
waitForGroupHealthiness ==
  /\ pc \in GateStages
  /\ gate.at = "for"
  /\ IF gate.attempt <= gate.attempts
     THEN /\ gate' = [gate EXCEPT !.at = "getGroupHealth", !.key = 1, !.statuses = NoStatuses]
          /\ UNCHANGED <<pc, outcome, deployErrs>>
     ELSE HealthcheckThrows(DBHealthinessCheckError("Unexpected error checking group health.",
                              <<Error("Reached end of for loop...should never.", <<>>)>>))
  /\ UNCHANGED <<props, versionTasks, deployTasks, triggerErr, calls, sleeps, observed, response>>

\* envNames of an application of envs: envs.map((env) => env.name)
EnvNamesOfApp(envs, app) ==
  LET own == groupEnvsByApp(envs)[app]
  IN [i \in DOMAIN own |-> own[i].name]

\* The application the loop of getGroupHealth is at, and its environments.
GateKey == ForInKeys(props.environments)[gate.key]

GateEnvs == groupEnvsByApp(props.environments)[GateKey]

\* A dry run asks for no environment by name.
GateEnvNamesWhenForced ==
  IF Force THEN [i \in DOMAIN GateEnvs |-> GateEnvs[i].name] ELSE <<>>

\* Only the first environment of the application is asked for.
GateEnvNamesFirst == <<GateEnvs[1].name>>

\* envNames: envs.map((env) => env.name)
GateEnvNames == [i \in DOMAIN GateEnvs |-> GateEnvs[i].name]

\* getGroupHealth sends the DescribeEnvironments request of the next application.
getGroupHealthSend ==
  /\ pc \in GateStages
  /\ gate.at = "getGroupHealth"
  /\ gate.key <= Len(ForInKeys(props.environments))
  /\ calls' = Append(calls, DescribeEnvironmentsCommand(GateKey, GateEnvNames, pc))
  /\ gate' = [gate EXCEPT !.at = "await"]
  /\ observed' = NoObservation
  /\ UNCHANGED <<props, pc, versionTasks, deployTasks, triggerErr, deployErrs, sleeps, outcome, response>>

\* No catch around getGroupHealth: its error is thrown as it is.
CouldNotCheckRethrows(err) == err

\* The catch of waitForGroupHealthiness around getGroupHealth.
CouldNotCheck(err) == DBHealthinessCheckError("Could not check group health.", <<err>>)

\* In a dry run getGroupHealth does not look at the environments returned.
SkipsClassification(force) == ~force

\* What the response held: how many environments were asked for and returned,
\* and the names asked for that it does not hold.
Observation(resp, envNames) ==
  IF resp.rejected \/ resp.Environments = None THEN NoObservation
  ELSE [requested |-> Len(envNames), returned |-> Len(resp.Environments[1]),
        absent |-> Missing(envNames, resp.Environments[1])]

\* The checks run in a real run only.
LookupFailureWhenForced(Environments, app, envs) ==
  IF ~Force THEN None
  ELSE IF Environments = None
  THEN Some(Error("Failed to check status for Environments in App", <<app>>))
  ELSE IF CountDiffers(Environments[1], envs)
  THEN Some(Error("The following Beanstalk Environments either do not exist or were not found",
                  Missing([i \in DOMAIN envs |-> envs[i].name], Environments[1])))
  ELSE None

\* The checks of getGroupHealth on resp.Environments, before anything depends
\* on props.force: the error thrown, if one is.
LookupFailure(Environments, app, envs) ==
  IF Environments = None
  THEN Some(Error("Failed to check status for Environments in App", <<app>>))
  ELSE IF CountDiffers(Environments[1], envs)
  THEN Some(Error("The following Beanstalk Environments either do not exist or were not found",
                  Missing([i \in DOMAIN envs |-> envs[i].name], Environments[1])))
  ELSE None

\* getGroupHealth resumed with the response resp to DescribeEnvironments.
getGroupHealthResumes(resp) ==
  /\ observed' = Observation(resp, GateEnvNames)
  /\ IF resp.rejected
     THEN HealthcheckThrows(CouldNotCheck(ClientError))
     ELSE IF LookupFailure(resp.Environments, GateKey, GateEnvs) # None
     THEN HealthcheckThrows(CouldNotCheck(LookupFailure(resp.Environments, GateKey, GateEnvs)[1]))
     ELSE IF SkipsClassification(Force)
     THEN /\ gate' = [gate EXCEPT !.at = "getGroupHealth", !.key = @ + 1]
          /\ UNCHANGED <<pc, outcome, deployErrs>>
     ELSE LET partitioned ==
                getEnvironmentsHealth(resp.Environments[1],
                                      Coalesce(gate.unhealthyStatuses, AWS_EB_HEALTH_CHECK_UNHEALTHY_STATES),
                                      IF gate.checkVersion THEN Some(Label) ELSE None)
          IN IF partitioned.threw # None
             THEN HealthcheckThrows(CouldNotCheck(partitioned.threw[1]))
             ELSE /\ gate' = [gate EXCEPT !.at = "getGroupHealth", !.key = @ + 1,
                                          !.statuses.healthy = @ \o partitioned.healthy,
                                          !.statuses.unhealthy = @ \o partitioned.unhealthy]
                  /\ UNCHANGED <<pc, outcome, deployErrs>>
  /\ UNCHANGED <<props, versionTasks, deployTasks, triggerErr, calls, sleeps, response>>

getGroupHealth ==
  /\ pc \in GateStages
  /\ gate.at = "await"
  /\ \E resp \in DescribeEnvironmentsResponses(GateEnvNames) : getGroupHealthResumes(resp)

\* Healthy only by the count of healthy environments, in a dry run too.
allAreHealthyCounted(statuses) ==
  Len(statuses.healthy) = Len(props.environments)

\* A real run needs at least one healthy environment.
allAreHealthyAndSome(statuses) ==
  ~Force \/ (statuses.healthy # <<>> /\ Len(statuses.healthy) = Len(props.environments))

\* allAreHealthy: !props.force || statuses.healthy.length === props.group.environments.length
allAreHealthy(statuses) ==
  ~Force \/ Len(statuses.healthy) = Len(props.environments)

\* Every attempt counts as the last one.
isLastAttemptAlways(attempt, attempts) == TRUE

\* No attempt counts as the last one.
isLastAttemptNever(attempt, attempts) == FALSE

\* isLastAttempt: attempt === props.attempts
isLastAttempt(attempt, attempts) == attempt = attempts

\* Only the first unhealthy environment is reported.
UnhealthyErrorsFirst(statuses) ==
  <<Error("Beanstalk environment is not ready, healthy and with the expected version",
          <<statuses.unhealthy[1]>>)>>

\* statuses.unhealthy.map((envStatus) => new Error(...))
UnhealthyErrors(statuses) ==
  [i \in DOMAIN statuses.unhealthy |->
     Error("Beanstalk environment is not ready, healthy and with the expected version",
           <<statuses.unhealthy[i]>>)]

\* The sleep comes before the test of allAreHealthy: a check that found all
\* healthy sleeps once more before it returns.
waitForGroupHealthinessSettleSleepsFirst ==
  /\ pc \in GateStages
  /\ gate.at = "getGroupHealth"
  /\ gate.key > Len(ForInKeys(props.environments))
  /\ IF isLastAttempt(gate.attempt, gate.attempts) /\ ~allAreHealthy(gate.statuses)
     THEN /\ HealthcheckThrows(DBHealthinessCheckError("Beanstalks are not healthy after attempt(s).",
                                                       UnhealthyErrors(gate.statuses)))
          /\ sleeps' = sleeps
     ELSE IF allAreHealthy(gate.statuses)
     THEN /\ HealthcheckReturns
          /\ sleeps' = Append(sleeps, pc)
     ELSE /\ gate' = [gate EXCEPT !.at = "sleep", !.statuses = NoStatuses]
          /\ sleeps' = sleeps
          /\ UNCHANGED <<pc, outcome, deployErrs>>
  /\ observed' = NoObservation
  /\ UNCHANGED <<props, versionTasks, deployTasks, triggerErr, calls, response>>

\* getGroupHealth returned the statuses: waitForGroupHealthiness throws on the
\* last attempt, returns when all are healthy, or sleeps.
waitForGroupHealthinessSettle ==
  /\ pc \in GateStages
  /\ gate.at = "getGroupHealth"
  /\ gate.key > Len(ForInKeys(props.environments))
  /\ IF isLastAttempt(gate.attempt, gate.attempts) /\ ~allAreHealthy(gate.statuses)
     THEN HealthcheckThrows(DBHealthinessCheckError("Beanstalks are not healthy after attempt(s).",
                                                    UnhealthyErrors(gate.statuses)))
     ELSE IF allAreHealthy(gate.statuses)
     THEN HealthcheckReturns
     ELSE /\ gate' = [gate EXCEPT !.at = "sleep", !.statuses = NoStatuses]
          /\ UNCHANGED <<pc, outcome, deployErrs>>
  /\ observed' = NoObservation
  /\ UNCHANGED <<props, versionTasks, deployTasks, triggerErr, calls, sleeps, response>>

\* await sleep(props.timeBetweenAttemptsMs), then attempt++
sleep ==
  /\ pc \in GateStages
  /\ gate.at = "sleep"
  /\ sleeps' = Append(sleeps, pc)
  /\ gate' = [gate EXCEPT !.at = "for", !.attempt = @ + 1]
  /\ UNCHANGED <<props, pc, versionTasks, deployTasks, triggerErr, deployErrs, calls, observed, outcome, response>>

(* ----------------------- deployAppVersionsToGroup --------------------- *)

\* The request goes out in a dry run only.
SendsUpdateEnvironmentInverted(force) == ~force

\* deployApplicationVersion sends its request unless !props.force.
SendsUpdateEnvironment(force) == force

\* deploySteps and the map of deployAppVersionsToGroup: one deploy() per
\* environment, each running up to the await of its UpdateEnvironment request
\* or, in a dry run, to its end.
deployAppVersionsToGroup ==
  /\ pc = "deploySteps"
  /\ LET envs == props.environments
     IN IF SendsUpdateEnvironment(Force)
        THEN /\ deployTasks' = [i \in DOMAIN envs |-> "updating"]
             /\ calls' = calls \o [i \in DOMAIN envs |-> UpdateEnvironmentCommand(envs[i])]
        ELSE /\ deployTasks' = [i \in DOMAIN envs |-> "settled"]
             /\ calls' = calls
  /\ triggerErr' = <<>>
  /\ pc' = "deployAppVersions"
  /\ UNCHANGED <<props, versionTasks, gate, deployErrs, sleeps, outcome, observed, response>>

\* The catch keeps the error of the last deploy() that failed only.
deployKeepsLastError(i, resp) ==
  /\ pc = "deployAppVersions"
  /\ i \in DOMAIN deployTasks
  /\ deployTasks[i] = "updating"
  /\ deployTasks' = [deployTasks EXCEPT ![i] = "settled"]
  /\ LET env == props.environments[i]
     IN triggerErr' =
          IF resp.rejected THEN <<DBTriggerDeployError(env.name, ClientError)>>
          ELSE IF IsSuccessStatus(resp.httpStatusCode) THEN triggerErr
          ELSE <<DBTriggerDeployError(env.name, Error("Response metadata", <<env.name>>))>>
  /\ UNCHANGED <<props, pc, versionTasks, gate, deployErrs, calls, sleeps, outcome, observed, response>>

\* deploy() resumed with the response to UpdateEnvironment: its catch wraps a
\* failure in a DBTriggerDeployError, which deployAppVersionsToGroup pushes to
\* triggerErr.errors.
deploy(i, resp) ==
  /\ pc = "deployAppVersions"
  /\ i \in DOMAIN deployTasks
  /\ deployTasks[i] = "updating"
  /\ deployTasks' = [deployTasks EXCEPT ![i] = "settled"]
  /\ LET env == props.environments[i]
     IN triggerErr' =
          IF resp.rejected THEN Append(triggerErr, DBTriggerDeployError(env.name, ClientError))
          ELSE IF IsSuccessStatus(resp.httpStatusCode) THEN triggerErr
          ELSE Append(triggerErr, DBTriggerDeployError(env.name, Error("Response metadata", <<env.name>>)))
  /\ UNCHANGED <<props, pc, versionTasks, gate, deployErrs, calls, sleeps, outcome, observed, response>>

\* The errors of the environments join deployErrs one by one.
NotedTriggerErrorsFlat(errs, triggerErrors) == errs \o triggerErrors

\* deployAppVersionsToGroup throws triggerErr if it holds an error, and the
\* catch of deploySteps pushes it to deployErrs.errors.
NotedTriggerErrors(errs, triggerErrors) ==
  IF Len(triggerErrors) # 0
  THEN Append(errs, DBGroupDeployTriggerError("deployAppVersionsToGroup: ", triggerErrors))
  ELSE errs

\* The promise settles with the first deploy() that does.
anySettled(tasks) == tasks = <<>> \/ \E i \in DOMAIN tasks : tasks[i] = "settled"

\* Promise.all over deploy() calls that never reject (each catches its
\* error) settles when every one of them has.
all(tasks) == \A i \in DOMAIN tasks : tasks[i] = "settled"

\* Promise.all has every result: deployAppVersionsToGroup throws triggerErr if
\* it holds an error, deploySteps notes it, and postDeployHealthcheck starts.
deployAppVersionsSettledWith(postDeployHealthCheckProps) ==
  /\ pc = "deployAppVersions"
  /\ all(deployTasks)
  /\ deployErrs' = NotedTriggerErrors(deployErrs, triggerErr)
  /\ pc' = "postDeployHealthcheck"
  /\ \E healthCheckProps \in postDeployHealthCheckProps :
       gate' = Called("postDeployHealthcheck", healthCheckProps)
  /\ UNCHANGED <<props, versionTasks, deployTasks, triggerErr, calls, sleeps, outcome, observed, response>>

deployAppVersionsSettled == deployAppVersionsSettledWith(HealthCheckProps)

(* --------------------------- specification ---------------------------- *)

Next ==
  \/ createAppVersionsForGroup
  \/ \E i \in 1..MaxEnvs, resp \in DescribeVersionsResponses : create(i, resp)
  \/ \E i \in 1..MaxEnvs, resp \in StatusResponses : createApplicationVersion(i, resp)
  \/ createAppVersionsSettled
  \/ waitForGroupHealthiness
  \/ getGroupHealthSend
  \/ getGroupHealth
  \/ waitForGroupHealthinessSettle
  \/ sleep
  \/ deployAppVersionsToGroup
  \/ \E i \in 1..MaxEnvs, resp \in StatusResponses : deploy(i, resp)
  \/ deployAppVersionsSettled

Spec == Init /\ [][Next]_vars

(* ------------------- the run with the props of the tests --------------- *)

\* COMMON_DEPLOY_PROPS: preDeployHealthCheckProps.attempts and
\* postDeployHealthCheckProps.attempts.
PreDeployAttempts == 1
PostDeployAttempts == 3

CommonHealthCheckProps(attempts) ==
  [attempts : {attempts}, unhealthyStatuses : {None, Some({"Severe"})}]

NextCommon ==
  \/ createAppVersionsForGroup
  \/ \E i \in 1..MaxEnvs, resp \in DescribeVersionsResponses : create(i, resp)
  \/ \E i \in 1..MaxEnvs, resp \in StatusResponses : createApplicationVersion(i, resp)
  \/ createAppVersionsSettledWith(CommonHealthCheckProps(PreDeployAttempts))
  \/ waitForGroupHealthiness
  \/ getGroupHealthSend
  \/ getGroupHealth
  \/ waitForGroupHealthinessSettle
  \/ sleep
  \/ deployAppVersionsToGroup
  \/ \E i \in 1..MaxEnvs, resp \in StatusResponses : deploy(i, resp)
  \/ deployAppVersionsSettledWith(CommonHealthCheckProps(PostDeployAttempts))

SpecCommon == Init /\ [][NextCommon]_vars

(* ---------------------- getEnvironmentsHealth alone -------------------- *)

\* getGroupHealth of a real run holds the response to the DescribeEnvironments
\* request for two environments of one application, in either health check
\* and with either set of unhealthy statuses.
InitHealth ==
  /\ props \in { p \in DeployToGroupProps :
                   /\ p.force = Some(TRUE)
                   /\ Len(p.environments) = 2
                   /\ \A i \in DOMAIN p.environments : p.environments[i].app = "AppOne" }
  /\ pc \in GateStages
  /\ \E healthCheckProps \in CommonHealthCheckProps(PreDeployAttempts) :
       gate = [Called(pc, healthCheckProps) EXCEPT !.at = "await", !.key = 1]
  /\ response \in { Some(l) : l \in EnvironmentLists(<<EnvName(1), EnvName(2)>>) }
  /\ versionTasks = <<>>
  /\ deployTasks = <<>>
  /\ triggerErr = <<>>
  /\ deployErrs = <<>>
  /\ calls = <<>>
  /\ sleeps = <<>>
  /\ observed = NoObservation
  /\ outcome = None

\* getEnvironmentsHealth(resp.Environments, unhealthyStatuses, expectedVersionLabel)
\* as getGroupHealth calls it.
getEnvironmentsHealthCalled ==
  /\ response # None
  /\ gate.at = "await"
  /\ LET partitioned ==
           getEnvironmentsHealth(response[1],
                                 Coalesce(gate.unhealthyStatuses, AWS_EB_HEALTH_CHECK_UNHEALTHY_STATES),
                                 IF gate.checkVersion THEN Some(Label) ELSE None)
     IN gate' = IF partitioned.threw # None
                THEN [gate EXCEPT !.at = "threw", !.error = partitioned.threw]
                ELSE [gate EXCEPT !.at = "getGroupHealth",
                                  !.statuses = [healthy |-> partitioned.healthy,
                                                unhealthy |-> partitioned.unhealthy]]
  /\ UNCHANGED <<props, pc, versionTasks, deployTasks, triggerErr, deployErrs, calls, sleeps,
                 observed, response, outcome>>

NextHealth == getEnvironmentsHealthCalled

SpecHealth == InitHealth /\ [][NextHealth]_vars

(* ------------------------------ properties ---------------------------- *)

\* The commands of one kind sent so far, in order.
Sent(cmd) == SelectSeq(calls, LAMBDA c : c.cmd = cmd)

SentFor(cmd, app) == SelectSeq(calls, LAMBDA c : c.cmd = cmd /\ c.ApplicationName = app)

SentDuring(stage) == SelectSeq(calls, LAMBDA c : c.during = stage)

Terminated == pc \in {"resolved", "rejected"}

\* C1: in a run with force = false no CreateApplicationVersion and no
\* UpdateEnvironment request is ever sent, whatever the remote answers.
C1_DryRunSendsNoWrite ==
  props.force = Some(FALSE) =>
    /\ Sent("CreateApplicationVersion") = <<>>
    /\ Sent("UpdateEnvironment") = <<>>

\* A dry run over two environments ran to its end, and no application had the
\* version, so that a real run would have created and deployed it.
C1_Witness ==
  /\ props.force = Some(FALSE)
  /\ pc = "resolved"
  /\ Len(props.environments) = 2
  /\ \A i \in DOMAIN versionTasks : versionTasks[i].exists = Some(FALSE)
  /\ \A i \in DOMAIN deployTasks : deployTasks[i] = "settled"

\* C2: for a group over N distinct applications, provisioning sends at most N
\* DescribeApplicationVersions and at most N CreateApplicationVersion requests,
\* at most one of each per application, however the environments share
\* applications and in whatever order they are listed.
C2_OncePerApplication ==
  LET apps == { props.environments[i].app : i \in DOMAIN props.environments }
  IN \A cmd \in {"DescribeApplicationVersions", "CreateApplicationVersion"} :
       /\ Len(Sent(cmd)) <= Cardinality(apps)
       /\ \A app \in Apps : Len(SentFor(cmd, app)) <= 1

\* Two environments share one application, and its version was looked up and
\* created, once.
C2_Witness ==
  /\ Len(props.environments) = 2
  /\ props.environments[1].app = props.environments[2].app
  /\ Len(SentFor("DescribeApplicationVersions", props.environments[1].app)) = 1
  /\ Len(SentFor("CreateApplicationVersion", props.environments[1].app)) = 1
  /\ pc = "resolved"

\* The create() calls that found the version of their application.
FoundExisting == { i \in DOMAIN versionTasks : versionTasks[i].exists = Some(TRUE) }

AlreadyExists(app) == DBCreateApplicationVersionError(app, Error("it already exists", <<app>>))

\* C3: when DescribeApplicationVersions returns a non-empty list while
\* errorIfExists is true, the run can only fail: it never gets past
\* provisioning, no UpdateEnvironment request is sent for any environment, and
\* the aggregate it is rejected with has, as direct sub-errors, exactly one
\* DBCreateApplicationVersionError for each application whose version exists.
C3_ExistingVersionFails ==
  (props.errorIfExists /\ FoundExisting # {}) =>
    /\ pc \in {"createAppVersions", "rejected"}
    /\ Sent("UpdateEnvironment") = <<>>
    /\ pc = "rejected" =>
         /\ outcome # None
         /\ outcome[1].type = "DBError"
         /\ \A i \in FoundExisting :
              Len(SelectSeq(outcome[1].errors,
                            LAMBDA e : e = AlreadyExists(versionTasks[i].app))) = 1
         /\ Len(SelectSeq(outcome[1].errors, LAMBDA e : e.msg = "it already exists"))
              = Cardinality(FoundExisting)

\* Both applications of a group had the version, and the run was rejected with
\* the two errors.
C3_Witness ==
  /\ props.errorIfExists
  /\ Cardinality(FoundExisting) = 2
  /\ pc = "rejected"
  /\ Len(outcome[1].errors) = 2

\* C4: a provisioning failure for at least one application (the version exists
\* and errorIfExists is set, the lookup is rejected, the creation is rejected or
\* answered outside 200..299) is fatal: no DescribeEnvironments and no
\* UpdateEnvironment request is sent for any environment, those of the
\* applications whose provisioning succeeded included.
C4_ProvisioningFailureIsFatal ==
  (\E i \in DOMAIN versionTasks : versionTasks[i].state = "rejected") =>
    /\ pc \in {"createAppVersions", "rejected"}
    /\ gate = IdleGate
    /\ Sent("DescribeEnvironments") = <<>>
    /\ Sent("UpdateEnvironment") = <<>>
    /\ pc = "rejected" => ~ENABLED Next

\* The creation for one application was answered outside 200..299, that for
\* the other succeeded, and the run was rejected.
C4_Witness ==
  /\ pc = "rejected"
  /\ Len(versionTasks) = 2
  /\ \E i, j \in DOMAIN versionTasks :
       /\ versionTasks[i].state = "rejected"
       /\ versionTasks[i].reason[1].msg = "Create application version failed"
       /\ versionTasks[j].state = "fulfilled"
       /\ versionTasks[j].exists = Some(FALSE)

\* waitForGroupHealthiness threw in preDeployHealthcheck.
PreDeployFailed == gate.at = "threw" /\ ~gate.checkVersion

\* C5: a failure of the pre-deploy health check (not all healthy after its
\* attempts, or a failed lookup) is fatal: the run is rejected with its error,
\* no UpdateEnvironment request is sent, and the post-deploy check is never
\* started.
C5_PreDeployFailureIsFatal ==
  PreDeployFailed =>
    /\ pc = "rejected"
    /\ outcome # None
    /\ outcome[1].type = "DBHealthinessCheckError"
    /\ deployTasks = <<>>
    /\ Sent("UpdateEnvironment") = <<>>
    /\ SentDuring("postDeployHealthcheck") = <<>>
    /\ ~ENABLED Next

\* A real run found an environment unhealthy on both attempts of the
\* pre-deploy check.
C5_Witness ==
  /\ PreDeployFailed
  /\ Force
  /\ gate.attempt = 2
  /\ sleeps = <<"preDeployHealthcheck">>
  /\ outcome[1].msg = "preDeployHealthcheck(): Beanstalks are not healthy after attempt(s)."
  /\ Len(outcome[1].errors) = 1

\* deployAppVersionsToGroup was called: the run is in the trigger stage or
\* past it (postDeployHealthcheck is called when it settles).
TriggerStageReached == pc = "deployAppVersions" \/ gate.checkVersion

UpdatesOf(env) ==
  SelectSeq(calls, LAMBDA c : c.cmd = "UpdateEnvironment" /\ c.ApplicationName = env.app
                              /\ c.names = <<env.name>>)

\* C6: in a real run (force = true) that passes provisioning and the
\* pre-deploy check, the trigger stage sends exactly one UpdateEnvironment
\* request for every environment of the group, whatever subset of them fails
\* (and none is sent before the stage).
C6_OneTriggerPerEnvironment ==
  /\ (Force /\ TriggerStageReached) =>
       /\ Len(Sent("UpdateEnvironment")) = Len(props.environments)
       /\ \A i \in DOMAIN props.environments : Len(UpdatesOf(props.environments[i])) = 1
  /\ ~TriggerStageReached => Sent("UpdateEnvironment") = <<>>

\* The trigger of the first of two environments failed, the second one was
\* sent and succeeded, and the stage settled.
C6_Witness ==
  /\ Force
  /\ Len(props.environments) = 2
  /\ gate.checkVersion
  /\ Len(triggerErr) = 1
  /\ triggerErr[1].target = <<props.environments[1].name>>
  /\ Len(UpdatesOf(props.environments[2])) = 1

\* The trigger stage settled with the failure of exactly one of two
\* environments of different applications.
OneOfTwoTriggersFailed ==
  /\ Len(props.environments) = 2
  /\ props.environments[1].app # props.environments[2].app
  /\ gate.checkVersion
  /\ Len(triggerErr) = 1

\* The DescribeEnvironments request waitForGroupHealthiness sends k-th in a
\* stage: it goes round the applications of the whole group.
KthLookup(k, stage) ==
  LET keys == ForInKeys(props.environments)
      app == keys[((k - 1) % Len(keys)) + 1]
      envs == groupEnvsByApp(props.environments)[app]
  IN DescribeEnvironmentsCommand(app, [i \in DOMAIN envs |-> envs[i].name], stage)

\* C7: when exactly one of two environments (of different applications) fails
\* its trigger, the run cannot succeed, the error it is rejected with holds
\* exactly one trigger aggregate holding exactly one DBTriggerDeployError and no
\* such error elsewhere, and the post-deploy check still runs over both
\* environments: it is called, its lookups go round both applications, the
\* failed environment's included, and a verdict on health (a return, or "not
\* healthy after attempt(s)") is reached with both looked up on every attempt.
C7_OneFailedTrigger ==
  OneOfTwoTriggersFailed =>
    LET lookups == SentDuring("postDeployHealthcheck")
        verdict == \/ gate.at = "returned"
                   \/ /\ gate.at = "threw"
                      /\ gate.error[1].msg = "Beanstalks are not healthy after attempt(s)."
    IN /\ pc \in {"postDeployHealthcheck", "rejected"}
       /\ \A k \in DOMAIN lookups : lookups[k] = KthLookup(k, "postDeployHealthcheck")
       /\ verdict => Len(lookups) = 2 * gate.attempt
       /\ pc = "rejected" =>
            LET subs == outcome[1].errors
                aggregates == SelectSeq(subs, LAMBDA e : e.type = "DBGroupDeployTriggerError")
            IN /\ outcome[1].type = "DBError"
               /\ Len(aggregates) = 1
               /\ Len(aggregates[1].errors) = 1
               /\ aggregates[1].errors[1].type = "DBTriggerDeployError"
               /\ \A i \in DOMAIN subs :
                    /\ subs[i].type # "DBTriggerDeployError"
                    /\ subs[i].type # "DBGroupDeployTriggerError" =>
                         \A j \in DOMAIN subs[i].errors :
                           subs[i].errors[j].type # "DBTriggerDeployError"

\* One of two triggers failed, the post-deploy check looked both environments
\* up and found them unhealthy, and the run was rejected with both aggregates.
C7_Witness ==
  /\ OneOfTwoTriggersFailed
  /\ pc = "rejected"
  /\ Len(outcome[1].errors) = 2
  /\ Len(SentDuring("postDeployHealthcheck")) = 2
  /\ gate.error[1].msg = "Beanstalks are not healthy after attempt(s)."

\* waitForGroupHealthiness threw in postDeployHealthcheck.
PostDeployFailed == gate.at = "threw" /\ gate.checkVersion

ResponseShort == observed.returned < observed.requested

GateStage == IF gate.checkVersion THEN "postDeployHealthcheck" ELSE "preDeployHealthcheck"

\* The error waitForGroupHealthiness throws for the absent environments.
AbsentError ==
  DBHealthinessCheckError("Could not check group health.",
    <<Error("The following Beanstalk Environments either do not exist or were not found",
            observed.absent)>>)

\* The run was rejected with the error e of waitForGroupHealthiness: with e
\* itself from preDeployHealthcheck, with the DBError of deploySteps, whose last
\* sub-error e is, from postDeployHealthcheck.
RejectedWithGateError(e) ==
  /\ pc = "rejected"
  /\ outcome # None
  /\ IF gate.checkVersion
     THEN /\ outcome[1].type = "DBError"
          /\ outcome[1].errors # <<>>
          /\ outcome[1].errors[Len(outcome[1].errors)]
               = [e EXCEPT !.msg = "postDeployHealthcheck(): " \o @]
     ELSE outcome[1] = [e EXCEPT !.msg = "preDeployHealthcheck(): " \o @]

\* C9: when a named environment is absent from a DescribeEnvironments response
\* (the response holds fewer environments than were requested), the run fails
\* at once, on the attempt that sees it, attempt 1 of N included: no sleep
\* follows, no further request is sent, and the run is rejected with a
\* health-check aggregate (wrapped by deploySteps when the post-deploy check
\* sees it) holding exactly one error, which names the absent environments.
C9_AbsentEnvironmentFailsAtOnce ==
  ResponseShort =>
    /\ observed.absent # <<>>
    /\ gate.at = "threw"
    /\ gate.error = Some(AbsentError)
    /\ Len(gate.error[1].errors) = 1
    /\ RejectedWithGateError(AbsentError)
    /\ Len(SelectSeq(sleeps, LAMBDA stage : stage = GateStage)) = gate.attempt - 1
    /\ calls[Len(calls)].cmd = "DescribeEnvironments"
    /\ Len(SentDuring(GateStage)) <= (gate.attempt - 1) * Len(ForInKeys(props.environments)) + gate.key
    /\ ~ENABLED Next

\* A real run with two attempts saw the environment absent on the first
\* lookup of the pre-deploy check.
C9_Witness ==
  /\ ResponseShort
  /\ Force
  /\ ~gate.checkVersion
  /\ gate.attempts = 2
  /\ gate.attempt = 1
  /\ sleeps = <<>>
  /\ pc = "rejected"

RoundComplete ==
  /\ pc \in GateStages
  /\ gate.at = "getGroupHealth"
  /\ gate.key > Len(ForInKeys(props.environments))

GroupApps == { props.environments[i].app : i \in DOMAIN props.environments }

\* The DescribeEnvironments requests a stage sent for an application.
LookupsFor(app, stage) ==
  SelectSeq(calls, LAMBDA c : c.cmd = "DescribeEnvironments" /\ c.ApplicationName = app
                              /\ c.during = stage)

\* C11: with postDeployHealthCheckProps.attempts = 3, when an environment is
\* found unhealthy on attempt 1 of the post-deploy check the check goes on
\* (no error, no request yet), and when all are found healthy on attempt 2
\* exactly 2 DescribeEnvironments requests were sent for each application in
\* that check, none follows, the check returns and the run, its triggers
\* having succeeded, resolves.
C11_HealthyOnSecondAttempt ==
  [][ (Force /\ pc = "postDeployHealthcheck" /\ gate.attempts = PostDeployAttempts
       /\ RoundComplete) =>
        /\ (gate.attempt = 1 /\ gate.statuses.unhealthy # <<>>) =>
             /\ gate'.at = "sleep"
             /\ pc' = pc
             /\ calls' = calls
             /\ outcome' = outcome
        /\ (gate.attempt = 2 /\ gate.statuses.unhealthy = <<>>) =>
             /\ \A app \in GroupApps : Len(LookupsFor(app, "postDeployHealthcheck")) = 2
             /\ calls' = calls
             /\ gate'.at = "returned"
             /\ triggerErr = <<>> => pc' = "resolved"
    ]_vars

\* The post-deploy check with three attempts slept once and returned on its
\* second attempt, with two lookups of each of two applications, and the run
\* resolved.
C11_Witness ==
  /\ Force
  /\ pc = "resolved"
  /\ gate.attempts = PostDeployAttempts
  /\ gate.attempt = 2
  /\ sleeps = <<"postDeployHealthcheck">>
  /\ Cardinality(GroupApps) = 2
  /\ \A app \in GroupApps : Len(LookupsFor(app, "postDeployHealthcheck")) = 2

\* C12: a real run (force = true) that resolves and found the version label
\* in no application has sent exactly one DescribeApplicationVersions and one
\* CreateApplicationVersion request per distinct application, exactly one
\* UpdateEnvironment request per environment, and at least one
\* DescribeEnvironments request per distinct application in the pre-deploy and
\* in the post-deploy check.
C12_RoundTrip ==
  (Force /\ pc = "resolved"
   /\ \A i \in DOMAIN versionTasks : versionTasks[i].exists = Some(FALSE)) =>
    /\ Len(Sent("DescribeApplicationVersions")) = Cardinality(GroupApps)
    /\ Len(Sent("CreateApplicationVersion")) = Cardinality(GroupApps)
    /\ Len(Sent("UpdateEnvironment")) = Len(props.environments)
    /\ \A app \in GroupApps :
         /\ Len(SentFor("DescribeApplicationVersions", app)) = 1
         /\ Len(SentFor("CreateApplicationVersion", app)) = 1
         /\ Len(LookupsFor(app, "preDeployHealthcheck")) >= 1
         /\ Len(LookupsFor(app, "postDeployHealthcheck")) >= 1
    /\ \A i \in DOMAIN props.environments : Len(UpdatesOf(props.environments[i])) = 1

\* A real run over two applications created both versions, found every
\* environment healthy at once and resolved.
C12_Witness ==
  /\ Force
  /\ pc = "resolved"
  /\ Cardinality(GroupApps) = 2
  /\ \A i \in DOMAIN versionTasks : versionTasks[i].exists = Some(FALSE)
  /\ sleeps = <<>>
  /\ Len(Sent("DescribeEnvironments")) = 4

\* The names of the environments of a list of descriptions that satisfy Test.
NamesWhere(Environments, Test(_)) ==
  LET kept == SelectSeq(Environments, Test)
  IN [i \in DOMAIN kept |-> kept[i].EnvironmentName]

\* An environment is healthy: Ready, its health status outside the unhealthy
\* ones of the check and, in a check of the version, on the label of the group.
ReportsHealthy(envDesc) ==
  /\ envDesc.Status = Some("Ready")
  /\ envDesc.HealthStatus[1] \notin
       (IF gate.unhealthyStatuses = None THEN {"Severe", "Degraded", "Warning"}
        ELSE gate.unhealthyStatuses[1])
  /\ gate.checkVersion => envDesc.VersionLabel = Label

ReportsUnhealthy(envDesc) == ~ReportsHealthy(envDesc)

\* Every environment of the response carries a status and a health status.
ReportsStatuses ==
  \A i \in DOMAIN response[1] :
    response[1][i].Status # None /\ response[1][i].HealthStatus # None

\* C13: getEnvironmentsHealth, given environments that carry a status and a
\* health status, puts an environment in healthy if and only if its status is
\* Ready, its health status is not among the unhealthy ones (Severe, Degraded,
\* Warning when unhealthyStatuses is not given) and, when checkVersion is set,
\* its version label is the label of the group; it puts every other
\* environment in unhealthy.
C13_Classification ==
  (response # None /\ gate.at # "await" /\ ReportsStatuses) =>
    /\ gate.at = "getGroupHealth"
    /\ gate.statuses.healthy = NamesWhere(response[1], ReportsHealthy)
    /\ gate.statuses.unhealthy = NamesWhere(response[1], ReportsUnhealthy)

\* With unhealthyStatuses = {Severe}, a Ready environment in Warning was put
\* in healthy, and one in Severe in unhealthy.
C13_Witness ==
  /\ response # None
  /\ gate.at = "getGroupHealth"
  /\ gate.unhealthyStatuses = Some({"Severe"})
  /\ Len(response[1]) = 2
  /\ response[1][1].Status = Some("Ready") /\ response[1][1].HealthStatus = Some("Warning")
  /\ response[1][2].Status = Some("Ready") /\ response[1][2].HealthStatus = Some("Severe")
  /\ gate.statuses.healthy = <<response[1][1].EnvironmentName>>
  /\ gate.statuses.unhealthy = <<response[1][2].EnvironmentName>>

NotHealthyAfterAttempts == "Beanstalks are not healthy after attempt(s)."

\* C14: when an attempt of a health check of a real run ends with an
\* unhealthy environment, then on the last attempt waitForGroupHealthiness
\* throws a DBHealthinessCheckError holding exactly one error for each
\* environment unhealthy in that attempt, whose healthy and unhealthy
\* environments together are as many as the group has (nothing is kept from
\* earlier attempts, a healthy environment adds no error); on an earlier
\* attempt it throws nothing and goes to sleep before the next attempt.
C14_ErrorsOfLastAttempt ==
  [][ (Force /\ RoundComplete /\ gate.statuses.unhealthy # <<>>) =>
        IF gate.attempt = gate.attempts
        THEN /\ gate'.at = "threw"
             /\ gate'.error # None
             /\ gate'.error[1].type = "DBHealthinessCheckError"
             /\ gate'.error[1].msg = NotHealthyAfterAttempts
             /\ Len(gate'.error[1].errors) = Len(gate.statuses.unhealthy)
             /\ \A i \in DOMAIN gate.statuses.unhealthy :
                  /\ gate'.error[1].errors[i].type = "Error"
                  /\ gate'.error[1].errors[i].target = <<gate.statuses.unhealthy[i]>>
             /\ Len(gate.statuses.healthy) + Len(gate.statuses.unhealthy)
                  = Len(props.environments)
        ELSE /\ gate'.at = "sleep"
             /\ gate'.error = None
             /\ pc' = pc
             /\ outcome' = outcome
             /\ deployErrs' = deployErrs
    ]_vars

\* On the second and last attempt one of two environments was unhealthy, and
\* the error thrown holds one error.
C14_Witness ==
  /\ Force
  /\ gate.at = "threw"
  /\ gate.attempts = 2
  /\ gate.attempt = 2
  /\ Len(props.environments) = 2
  /\ gate.error[1].msg = NotHealthyAfterAttempts
  /\ Len(gate.error[1].errors) = 1

\* C15: a health check with attempts >= 1 ends within attempts rounds of
\* lookups, whatever the responses: its attempt never exceeds attempts, it
\* sends at most attempts rounds of requests and sleeps at most attempts - 1
\* times, and it ends by returning or by throwing a DBHealthinessCheckError
\* that is not the one thrown after the for loop.
C15_EndsWithinAttempts ==
  (gate.at # "idle" /\ gate.attempts >= 1) =>
    /\ gate.attempt <= gate.attempts
    /\ Len(SelectSeq(SentDuring(GateStage), LAMBDA c : c.cmd = "DescribeEnvironments"))
         <= gate.attempts * Len(ForInKeys(props.environments))
    /\ Len(SelectSeq(sleeps, LAMBDA stage : stage = GateStage)) <= gate.attempts - 1
    /\ gate.at = "threw" =>
         /\ gate.error[1].type = "DBHealthinessCheckError"
         /\ gate.error[1].msg # "Unexpected error checking group health."
    /\ Terminated => gate.at \in {"threw", "returned"}

\* A check with two attempts found an environment unhealthy, slept, and
\* returned on its last attempt.
C15_Witness ==
  /\ Force
  /\ gate.attempts = 2
  /\ gate.attempt = 2
  /\ gate.at = "returned"
  /\ Len(SelectSeq(sleeps, LAMBDA stage : stage = GateStage)) = 1

\* The names of the environments of an application, in group order.
EnvNamesOf(app) ==
  LET own == SelectSeq(props.environments, LAMBDA e : e.app = app)
  IN [i \in DOMAIN own |-> own[i].name]

\* The read requests sent so far: DescribeApplicationVersions and
\* DescribeEnvironments, each with its arguments and the stage that sent it.
Reads ==
  { calls[k] : k \in { j \in DOMAIN calls :
      calls[j].cmd \in {"DescribeApplicationVersions", "DescribeEnvironments"} } }

\* The read requests of a group: one (application, [label]) existence check
\* per application and, in each health check, one (application, names of its
\* environments) lookup per application.
GroupReads ==
  { [cmd |-> "DescribeApplicationVersions", ApplicationName |-> app,
     names |-> <<Label>>, during |-> "createAppVersions"] : app \in GroupApps }
  \cup
  { [cmd |-> "DescribeEnvironments", ApplicationName |-> app,
     names |-> EnvNamesOf(app), during |-> stage] : app \in GroupApps, stage \in GateStages }

\* C16: the DescribeApplicationVersions and DescribeEnvironments requests of
\* a run carry arguments that depend on the group only, not on force: every
\* read request of any run is one of the read requests of its group, and a run
\* that resolves, dry or real, has sent each of them, so that a dry run and a
\* successful real run over the same group send reads with the same arguments
\* in provisioning, in the pre-deploy and in the post-deploy check.
C16_SameReads ==
  /\ Reads \subseteq GroupReads
  /\ pc = "resolved" => Reads = GroupReads

\* A dry run over two environments of one application resolved, having looked
\* both up by name in each check.
C16_Witness ==
  /\ ~Force
  /\ pc = "resolved"
  /\ Len(props.environments) = 2
  /\ Cardinality(GroupApps) = 1
  /\ \E c \in Reads : c.during = "postDeployHealthcheck" /\ c.names = <<EnvName(1), EnvName(2)>>

\* C17: in a dry run a health check never sleeps and never starts a second
\* attempt, sends at most one DescribeEnvironments request per application,
\* and when it returns it has sent exactly one per application; it never
\* throws for environments found unhealthy, whatever they report.  A dry run
\* that resolves over A applications has sent exactly A
\* DescribeApplicationVersions and 2 * A DescribeEnvironments requests.
C17_DryRunOneRound ==
  ~Force =>
    /\ sleeps = <<>>
    /\ gate.at # "sleep"
    /\ gate.attempt <= 1
    /\ \A app \in GroupApps, stage \in GateStages : Len(LookupsFor(app, stage)) <= 1
    /\ gate.at = "returned" =>
         \A app \in GroupApps : Len(LookupsFor(app, GateStage)) = 1
    /\ gate.at = "threw" => gate.error[1].msg # NotHealthyAfterAttempts
    /\ pc = "resolved" =>
         /\ Len(Sent("DescribeApplicationVersions")) = Cardinality(GroupApps)
         /\ Len(Sent("DescribeEnvironments")) = 2 * Cardinality(GroupApps)

\* A dry run over two applications, with checks of two attempts, resolved
\* after two existence checks and four lookups.
C17_Witness ==
  /\ ~Force
  /\ pc = "resolved"
  /\ Cardinality(GroupApps) = 2
  /\ gate.attempts = 2
  /\ gate.attempt = 1
  /\ Len(Sent("DescribeApplicationVersions")) = 2
  /\ Len(Sent("DescribeEnvironments")) = 4

\* The run failed in provisioning, before any health check.
FailedInProvisioning == pc = "rejected" /\ gate = IdleGate

\* C18: the create() calls of the applications are independent.  Once
\* provisioning has started the existence check of every application of the
\* group was sent; in a real run CreateApplicationVersion was sent for every
\* application whose version was not found, whether or not another create()
\* failed; and the run leaves provisioning, failing or not, only when every
\* create() has settled.
C18_IndependentProvisioning ==
  /\ pc # "deployToGroup" =>
       \A app \in GroupApps : Len(SentFor("DescribeApplicationVersions", app)) = 1
  /\ Force =>
       \A i \in DOMAIN versionTasks :
         versionTasks[i].exists = Some(FALSE) =>
           Len(SentFor("CreateApplicationVersion", versionTasks[i].app)) = 1
  /\ pc \notin {"deployToGroup", "createAppVersions"} =>
       \A i \in DOMAIN versionTasks : Settled(versionTasks[i])

\* In a real run over two applications the create() of one was rejected and
\* that of the other sent its CreateApplicationVersion and was fulfilled; then
\* the run failed.
C18_Witness ==
  /\ Force
  /\ FailedInProvisioning
  /\ Len(versionTasks) = 2
  /\ versionTasks[1].state = "rejected"
  /\ versionTasks[2].state = "fulfilled"
  /\ versionTasks[2].exists = Some(FALSE)
  /\ Len(SentFor("CreateApplicationVersion", versionTasks[2].app)) = 1

\* C19: every CreateApplicationVersion request follows the
\* DescribeApplicationVersions request of the same application, and is sent
\* only by a create() whose existence check returned that the application has
\* no such version.
C19_CheckPrecedesCreate ==
  /\ \A k \in DOMAIN calls :
       calls[k].cmd = "CreateApplicationVersion" =>
         \E j \in 1..(k - 1) :
           /\ calls[j].cmd = "DescribeApplicationVersions"
           /\ calls[j].ApplicationName = calls[k].ApplicationName
  /\ \A i \in DOMAIN versionTasks :
       SentFor("CreateApplicationVersion", versionTasks[i].app) # <<>> =>
         versionTasks[i].exists = Some(FALSE)

\* The versions of two applications were created, the second existence check
\* having been sent before the first CreateApplicationVersion.
C19_Witness ==
  /\ Len(Sent("CreateApplicationVersion")) = 2
  /\ Len(calls) >= 4
  /\ calls[1].cmd = "DescribeApplicationVersions"
  /\ calls[2].cmd = "DescribeApplicationVersions"
  /\ calls[3].cmd = "CreateApplicationVersion"
  /\ calls[4].cmd = "CreateApplicationVersion"
  /\ calls[3].ApplicationName = calls[2].ApplicationName

\* The place of a stage in preDeploySteps and deploySteps.
StageRank(stage) ==
  CASE stage = "createAppVersions" -> 1
    [] stage = "preDeployHealthcheck" -> 2
    [] stage = "deployAppVersions" -> 3
    [] stage = "postDeployHealthcheck" -> 4

\* C20: the stages are separated by barriers.  No request of a stage follows
\* one of a later stage; when a DescribeEnvironments request of the pre-deploy
\* check was sent every create() had settled, and none was rejected; when an
\* UpdateEnvironment request was sent the pre-deploy check had returned; and
\* when a DescribeEnvironments request of the post-deploy check was sent every
\* deploy(), successful or failed, had settled.
C20_StageBarriers ==
  /\ \A j, k \in DOMAIN calls :
       j < k => StageRank(calls[j].during) <= StageRank(calls[k].during)
  /\ SentDuring("preDeployHealthcheck") # <<>> =>
       \A i \in DOMAIN versionTasks : versionTasks[i].state = "fulfilled"
  /\ (Sent("UpdateEnvironment") # <<>> /\ pc = "deployAppVersions") =>
       /\ gate.at = "returned"
       /\ ~gate.checkVersion
  /\ Sent("UpdateEnvironment") # <<>> =>
       SentDuring("preDeployHealthcheck") # <<>>
  /\ SentDuring("postDeployHealthcheck") # <<>> =>
       /\ Len(deployTasks) = Len(props.environments)
       /\ \A i \in DOMAIN deployTasks : deployTasks[i] = "settled"

\* The post-deploy check of a real run over two environments has sent a
\* lookup after one UpdateEnvironment succeeded and the other failed.
C20_Witness ==
  /\ Force
  /\ Len(props.environments) = 2
  /\ Len(Sent("UpdateEnvironment")) = 2
  /\ Len(triggerErr) = 1
  /\ SentDuring("postDeployHealthcheck") # <<>>
  /\ Sent("CreateApplicationVersion") # <<>>

\* The create() calls that were rejected.
RejectedTasks == { i \in DOMAIN versionTasks : versionTasks[i].state = "rejected" }

\* C21 as claimed: in each stage the failure list holds nothing while a task
\* of the stage has not settled; for the trigger stage, triggerErr.errors is
\* empty until every deploy() has settled.
C21_FailureListAfterAllSettled ==
  triggerErr # <<>> => \A i \in DOMAIN deployTasks : deployTasks[i] = "settled"

\* C21: every step of a create() or of a deploy() writes the result slot of
\* that task only.  In provisioning nothing else is written, and the failure
\* list is assembled from the slots when the stage ends, all create() calls
\* having settled: one error per rejected create().  In the trigger stage
\* each failing deploy() appends its error to the one list triggerErr.errors
\* when it fails, others still running; that list is read, and noted in
\* deployErrs, only when the stage ends, every deploy() having settled.
C21_SlotsAndFailureLists ==
  [][ /\ (pc = "createAppVersions" /\ pc' = pc) =>
           /\ Cardinality({ i \in DOMAIN versionTasks : versionTasks'[i] # versionTasks[i] }) = 1
           /\ outcome' = outcome
      /\ (pc = "createAppVersions" /\ pc' # pc) =>
           /\ \A i \in DOMAIN versionTasks : Settled(versionTasks[i])
           /\ versionTasks' = versionTasks
           /\ pc' = "rejected" => Len(outcome'[1].errors) = Cardinality(RejectedTasks)
      /\ (pc = "deployAppVersions" /\ pc' = pc) =>
           /\ Cardinality({ i \in DOMAIN deployTasks : deployTasks'[i] # deployTasks[i] }) = 1
           /\ \/ triggerErr' = triggerErr
              \/ /\ Len(triggerErr') = Len(triggerErr) + 1
                 /\ SubSeq(triggerErr', 1, Len(triggerErr)) = triggerErr
                 /\ \E i \in DOMAIN deployTasks :
                      /\ deployTasks'[i] # deployTasks[i]
                      /\ triggerErr'[Len(triggerErr')].target = <<props.environments[i].name>>
           /\ deployErrs' = deployErrs
      /\ (pc = "deployAppVersions" /\ pc' # pc) =>
           /\ \A i \in DOMAIN deployTasks : deployTasks[i] = "settled"
           /\ deployTasks' = deployTasks
           /\ triggerErr' = triggerErr
           /\ Len(deployErrs') = (IF triggerErr = <<>> THEN 0 ELSE 1)
    ]_vars

\* Both triggers of a group failed, the second environment's first, and the
\* stage noted one aggregate holding both errors in that order.
C21_Witness ==
  /\ pc = "postDeployHealthcheck"
  /\ Len(props.environments) = 2
  /\ Len(triggerErr) = 2
  /\ triggerErr[1].target = <<props.environments[2].name>>
  /\ Len(deployErrs) = 1
  /\ deployErrs[1].errors = triggerErr

\* C22: with errorIfExists = false a create() that found the version of its
\* application is fulfilled without an error and without sending
\* CreateApplicationVersion for that application; when every create() found
\* the version the stage ends in the pre-deploy check, never in a failure.
C22_ExistingVersionIsNoOp ==
  ~props.errorIfExists =>
    /\ \A i \in DOMAIN versionTasks :
         versionTasks[i].exists = Some(TRUE) =>
           /\ versionTasks[i].state = "fulfilled"
           /\ versionTasks[i].reason = None
           /\ SentFor("CreateApplicationVersion", versionTasks[i].app) = <<>>
    /\ (versionTasks # <<>> /\ FoundExisting = DOMAIN versionTasks /\ pc # "createAppVersions") =>
         /\ gate.at # "idle"
         /\ ~FailedInProvisioning

\* A real run over two applications found both versions, sent no
\* CreateApplicationVersion and is in its pre-deploy check.
C22_Witness ==
  /\ ~props.errorIfExists
  /\ Force
  /\ Len(versionTasks) = 2
  /\ FoundExisting = {1, 2}
  /\ pc = "preDeployHealthcheck"
  /\ Sent("CreateApplicationVersion") = <<>>
  /\ Sent("DescribeEnvironments") # <<>>

(* ------------- the status check of a write request's response ---------- *)

\* $metadata.httpStatusCode values around the limits of the success range.
StatusCodes == {0, 1, 100, 199, 200, 201, 204, 250, 299, 300, 301, 302, 400, 404, 500, 503}

\* A response to CreateApplicationVersion or UpdateEnvironment carrying any of
\* StatusCodes, none, or a rejection by the client.
AnyStatusResponses ==
  [rejected : {TRUE}, httpStatusCode : {None}]
  \cup [rejected : {FALSE}, httpStatusCode : {None} \cup { Some(code) : code \in StatusCodes }]

\* The pre-deploy check of a real run after its one round found all healthy.
PreDeployReturned(healthCheckProps, envs) ==
  [Called("preDeployHealthcheck", healthCheckProps)
     EXCEPT !.at = "returned", !.key = Len(ForInKeys(envs)) + 1]

\* A real run awaits the responses to its write requests: either every
\* create() has found no version and sent CreateApplicationVersion, or, the
\* versions created and the pre-deploy check passed, every deploy() has sent
\* UpdateEnvironment.  The response that arrives next is in response.
InitStatus ==
  /\ props \in { p \in DeployToGroupProps : p.force = Some(TRUE) /\ p.environments # <<>> }
  /\ response \in { Some(resp) : resp \in AnyStatusResponses }
  /\ pc \in {"createAppVersions", "deployAppVersions"}
  /\ LET envs == props.environments
         apps == appsWithCreatedVersions(envs)
         keys == ForInKeys(envs)
         described == [i \in DOMAIN apps |-> DescribeApplicationVersionsCommand(apps[i])]
         created == [i \in DOMAIN apps |-> CreateApplicationVersionCommand(apps[i])]
         lookedUp == [k \in DOMAIN keys |->
                        DescribeEnvironmentsCommand(keys[k], EnvNamesOfApp(envs, keys[k]), "preDeployHealthcheck")]
         updated == [i \in DOMAIN envs |-> UpdateEnvironmentCommand(envs[i])]
     IN IF pc = "createAppVersions"
        THEN /\ versionTasks = [i \in DOMAIN apps |->
                                 [app |-> apps[i], state |-> "creating", exists |-> Some(FALSE), reason |-> None]]
             /\ gate = IdleGate
             /\ deployTasks = <<>>
             /\ calls = described \o created
        ELSE /\ versionTasks = [i \in DOMAIN apps |->
                                 [app |-> apps[i], state |-> "fulfilled", exists |-> Some(FALSE), reason |-> None]]
             /\ gate = PreDeployReturned([attempts |-> PreDeployAttempts, unhealthyStatuses |-> None], envs)
             /\ deployTasks = [i \in DOMAIN envs |-> "updating"]
             /\ calls = described \o created \o lookedUp \o updated
  /\ triggerErr = <<>>
  /\ deployErrs = <<>>
  /\ sleeps = <<>>
  /\ observed = NoObservation
  /\ outcome = None

\* createApplicationVersion of some create() resumes with the response.
createApplicationVersionResumes ==
  \E i \in 1..MaxEnvs : createApplicationVersion(i, response[1])

\* deployApplicationVersion of some deploy() resumes with the response.
deployApplicationVersionResumes ==
  \E i \in 1..MaxEnvs : deploy(i, response[1])

NextStatus ==
  \/ createApplicationVersionResumes
  \/ deployApplicationVersionResumes

SpecStatus == InitStatus /\ [][NextStatus]_vars

\* The response carries a status code in [200, 300).
InSuccessRange ==
  /\ ~response[1].rejected
  /\ response[1].httpStatusCode # None
  /\ response[1].httpStatusCode[1] \in 200..299

\* The errors triggerErr holds for an environment.
TriggerErrorsOf(env) ==
  SelectSeq(triggerErr, LAMBDA e : e.type = "DBTriggerDeployError" /\ e.target = <<env.name>>)

\* C23: a create() that got the response to its CreateApplicationVersion is
\* fulfilled if and only if the response carries a status code in [200, 300),
\* and is otherwise (another code, or none) rejected with a
\* DBCreateApplicationVersionError for its application; a deploy() that got
\* the response to its UpdateEnvironment has noted a DBTriggerDeployError for
\* its environment if and only if the response carries no status code in
\* [200, 300).
C23_SuccessRange ==
  /\ \A i \in DOMAIN versionTasks :
       (pc = "createAppVersions" /\ Settled(versionTasks[i])) =>
         /\ versionTasks[i].state = "fulfilled" <=> InSuccessRange
         /\ versionTasks[i].state = "rejected" =>
              /\ versionTasks[i].reason # None
              /\ versionTasks[i].reason[1].type = "DBCreateApplicationVersionError"
              /\ versionTasks[i].reason[1].target = <<versionTasks[i].app>>
  /\ \A i \in DOMAIN deployTasks :
       deployTasks[i] = "settled" =>
         Len(TriggerErrorsOf(props.environments[i])) = (IF InSuccessRange THEN 0 ELSE 1)

\* A response with status code 300 failed the trigger of an environment.
C23_Witness ==
  /\ response[1].httpStatusCode = Some(300)
  /\ pc = "deployAppVersions"
  /\ deployTasks[1] = "settled"
  /\ Len(TriggerErrorsOf(props.environments[1])) = 1

\* C24: whatever the remote rejects or answers, a run that fails is rejected
\* with a DBError or one of its subclasses (DBGroupDeployTriggerError,
\* DBHealthinessCheckError) holding at least one sub-error; it is never
\* rejected with a plain Error, with the error of a single application or
\* environment, or with the error the remote client rejected a request with.
C24_OnlyAggregatesEscape ==
  /\ pc = "rejected" =>
       /\ outcome # None
       /\ InstanceOfDBError(outcome[1])
       /\ outcome[1].type \notin {"Error", "DBCreateApplicationVersionError", "DBTriggerDeployError"}
       /\ Len(outcome[1].errors) >= 1
       /\ outcome[1] # ClientError
  /\ outcome # None => pc = "rejected"

\* The remote client rejected the lookup of the pre-deploy check, and the run
\* was rejected with a health-check aggregate holding that rejection.
C24_Witness ==
  /\ pc = "rejected"
  /\ ~gate.checkVersion
  /\ gate.at = "threw"
  /\ outcome[1].type = "DBHealthinessCheckError"
  /\ outcome[1].errors = <<ClientError>>

\* The shapes of the error a run is rejected with.
ProvisionShape ==
  /\ outcome[1].type = "DBError"
  /\ outcome[1].errors # <<>>
  /\ \A j \in DOMAIN outcome[1].errors :
       outcome[1].errors[j].type = "DBCreateApplicationVersionError"

PreGateShape == outcome[1].type = "DBHealthinessCheckError"

DeployShape ==
  /\ outcome[1].type = "DBError"
  /\ outcome[1].errors # <<>>
  /\ \A j \in DOMAIN outcome[1].errors :
       outcome[1].errors[j].type \in {"DBGroupDeployTriggerError", "DBHealthinessCheckError"}

\* The names of the environments of the group, and the one a response may
\* hold in the place of one of them.
ReportedNames == { props.environments[i].name : i \in DOMAIN props.environments } \cup {Unrequested}

C26_OmittedForceIsDryRun ==
  props.force = None =>
    /\ Sent("CreateApplicationVersion") = <<>>
    /\ Sent("UpdateEnvironment") = <<>>
    /\ \A i \in DOMAIN deployTasks : deployTasks[i] = "settled"
    /\ sleeps = <<>>
    /\ gate.attempt <= 1
    /\ gate.at = "returned" =>
         \A app \in GroupApps : Len(LookupsFor(app, GateStage)) = 1
    /\ gate.at = "threw" => gate.error[1].msg # NotHealthyAfterAttempts
    /\ Terminated /\ gate.at = "returned" => pc = "resolved"

\* A run without force over two applications without the version resolved
\* after two existence checks and one lookup of each application per check.
C26_Witness ==
  /\ props.force = None
  /\ pc = "resolved"
  /\ Cardinality(GroupApps) = 2
  /\ \A i \in DOMAIN versionTasks : versionTasks[i].exists = Some(FALSE)
  /\ Len(deployTasks) = 2
  /\ Len(calls) = 6

\* The DescribeEnvironments requests a stage sent, in order.
Lookups(stage) ==
  SelectSeq(calls, LAMBDA c : c.cmd = "DescribeEnvironments" /\ c.during = stage)

\* waitForGroupHealthiness reached a verdict on the health of the group.
HealthVerdict ==
  \/ gate.at = "returned"
  \/ gate.at = "threw" /\ gate.error[1].msg = NotHealthyAfterAttempts

\* C27: in every round of a health check each application of the group is
\* looked up exactly once, with one DescribeEnvironments request naming all
\* the environments of that application, whatever an earlier round found:
\* the requests of a check split into rounds of A requests for A different
\* applications, a check at the end of its k-th round or with a verdict on
\* its k-th attempt has sent k * A requests, and a real run over two
\* applications that passed the pre-deploy check in its first round and the
\* post-deploy check in its second has sent 6.
C27_OneLookupPerApplicationAndRound ==
  LET A == Cardinality(GroupApps)
  IN /\ \A stage \in GateStages :
          LET lookups == Lookups(stage)
          IN /\ \A k \in DOMAIN lookups :
                  /\ lookups[k].ApplicationName \in GroupApps
                  /\ lookups[k].names = EnvNamesOf(lookups[k].ApplicationName)
             /\ \A j, k \in DOMAIN lookups :
                  (j < k /\ (j - 1) \div A = (k - 1) \div A) =>
                    lookups[j].ApplicationName # lookups[k].ApplicationName
     /\ (RoundComplete \/ HealthVerdict) => Len(Lookups(GateStage)) = gate.attempt * A
     /\ (pc = "resolved" /\ A = 2 /\ gate.attempt = 2 /\ Len(sleeps) = 1) =>
          Len(Sent("DescribeEnvironments")) = 6

\* A real run over two applications resolved after one round of the
\* pre-deploy check and two of the post-deploy check: 6 lookups.
C27_Witness ==
  /\ Force
  /\ pc = "resolved"
  /\ Cardinality(GroupApps) = 2
  /\ Len(Lookups("preDeployHealthcheck")) = 2
  /\ Len(Lookups("postDeployHealthcheck")) = 4
  /\ Lookups("postDeployHealthcheck")[3] = Lookups("postDeployHealthcheck")[1]

(* ------ the post-deploy check after a trigger failed, on an old label ---- *)

\* The names of the environments whose trigger failed.
FailedTriggers == { triggerErr[j].target[1] : j \in DOMAIN triggerErr }

\* What an environment that stays on the label it ran before may report.
StaleReports == { [r EXCEPT !.VersionLabel = OLD_VERSION] : r \in EnvReports }

\* The Environments lists a DescribeEnvironments for envNames may carry when
\* every environment of stale is returned with the label it ran before: the
\* other environments are returned or not, with any report, followed or not by
\* one environment that was not requested.
StaleEnvironmentLists(envNames, stale) ==
  LET n == Len(envNames)
      reports == [i \in 1..n |-> IF envNames[i] \in stale THEN StaleReports ELSE EnvReports]
      mustKeep == { i \in 1..n : envNames[i] \in stale }
      fs == { f \in [1..n -> EnvReports \cup StaleReports] : \A i \in 1..n : f[i] \in reports[i] }
      requested == { Pick([i \in 1..n |-> EnvironmentDescription(envNames[i], f[i])], keep, 1) :
                       f \in fs, keep \in { k \in SUBSET (1..n) : mustKeep \subseteq k } }
      extra == { <<>> } \cup { <<EnvironmentDescription(Unrequested, r)>> : r \in UnrequestedReports }
  IN { l \o x : l \in requested, x \in extra }

\* A real run has created its versions, passed the pre-deploy check in one
\* round and settled its triggers, of which that of the first environment, or
\* those of both, were rejected; postDeployHealthcheck has been called.
InitStale ==
  /\ props \in { p \in DeployToGroupProps : p.force = Some(TRUE) /\ p.environments # <<>> }
  /\ pc = "postDeployHealthcheck"
  /\ \E healthCheckProps \in HealthCheckProps :
       gate = Called("postDeployHealthcheck", healthCheckProps)
  /\ LET envs == props.environments
         apps == appsWithCreatedVersions(envs)
         keys == ForInKeys(envs)
         described == [i \in DOMAIN apps |-> DescribeApplicationVersionsCommand(apps[i])]
         created == [i \in DOMAIN apps |-> CreateApplicationVersionCommand(apps[i])]
         lookedUp == [k \in DOMAIN keys |->
                        DescribeEnvironmentsCommand(keys[k], EnvNamesOfApp(envs, keys[k]), "preDeployHealthcheck")]
         updated == [i \in DOMAIN envs |-> UpdateEnvironmentCommand(envs[i])]
     IN /\ versionTasks = [i \in DOMAIN apps |->
                            [app |-> apps[i], state |-> "fulfilled", exists |-> Some(FALSE), reason |-> None]]
        /\ deployTasks = [i \in DOMAIN envs |-> "settled"]
        /\ calls = described \o created \o lookedUp \o updated
        /\ \E failed \in { {1}, DOMAIN envs } :
             triggerErr = LET all_ == [i \in DOMAIN envs |-> DBTriggerDeployError(envs[i].name, ClientError)]
                          IN SelectSeq(all_, LAMBDA e : \E i \in failed : e.target = <<envs[i].name>>)
  /\ deployErrs = NotedTriggerErrors(<<>>, triggerErr)
  /\ sleeps = <<>>
  /\ observed = NoObservation
  /\ response = None
  /\ outcome = None

\* getGroupHealth resumes with a response in which every environment whose
\* trigger failed is returned on the label it ran before.
getGroupHealthStale ==
  /\ pc \in GateStages
  /\ gate.at = "await"
  /\ \E l \in StaleEnvironmentLists(GateEnvNames, FailedTriggers) :
       getGroupHealthResumes([rejected |-> FALSE, Environments |-> Some(l)])

NextStale ==
  \/ waitForGroupHealthiness
  \/ getGroupHealthSend
  \/ getGroupHealthStale
  \/ waitForGroupHealthinessSettle
  \/ sleep

SpecStale == InitStale /\ [][NextStale]_vars

\* C28: in a real run in which the trigger of an environment was rejected and
\* that environment is returned by every lookup on a label other than the
\* expected one, the post-deploy check, which compares labels and looks up
\* every environment of the group, that one included, never returns: unless
\* a lookup fails it goes through all its attempts and then throws, holding an
\* error for that environment; and the run is rejected with a DBError with
\* exactly two direct sub-errors, the trigger aggregate and the health-check
\* aggregate.
C28_PostDeployOverFullGroup ==
  /\ gate.checkVersion
  /\ gate.at # "returned"
  /\ pc # "resolved"
  /\ \A k \in DOMAIN Lookups("postDeployHealthcheck") :
       Lookups("postDeployHealthcheck")[k].names
         = EnvNamesOf(Lookups("postDeployHealthcheck")[k].ApplicationName)
  /\ RoundComplete => FailedTriggers \subseteq { gate.statuses.unhealthy[j] : j \in DOMAIN gate.statuses.unhealthy }
  /\ (gate.at = "threw" /\ gate.attempts >= 1) =>
       \/ gate.error[1].msg = "Could not check group health."
       \/ /\ gate.error[1].msg = NotHealthyAfterAttempts
          /\ gate.attempt = gate.attempts
          /\ Len(Lookups("postDeployHealthcheck")) = gate.attempts * Cardinality(GroupApps)
          /\ \A name \in FailedTriggers :
               \E j \in DOMAIN gate.error[1].errors : gate.error[1].errors[j].target = <<name>>
  /\ pc = "rejected" =>
       /\ outcome[1].type = "DBError"
       /\ Len(outcome[1].errors) = 2
       /\ outcome[1].errors[1].type = "DBGroupDeployTriggerError"
       /\ outcome[1].errors[1].errors = triggerErr
       /\ outcome[1].errors[2].type = "DBHealthinessCheckError"

\* The trigger of the first of two environments was rejected; the check found
\* it unhealthy on both of its two attempts, the other environment healthy on
\* the second, and the run was rejected with the two aggregates.
C28_Witness ==
  /\ pc = "rejected"
  /\ Len(props.environments) = 2
  /\ Len(triggerErr) = 1
  /\ gate.attempts = 2
  /\ gate.attempt = 2
  /\ sleeps = <<"postDeployHealthcheck">>
  /\ gate.error[1].msg = NotHealthyAfterAttempts
  /\ Len(gate.error[1].errors) = 1
  /\ Len(outcome[1].errors) = 2

(* ---- a real run over environments that stay ready on the old label ---- *)

\* preDeployHealthCheckProps and postDeployHealthCheckProps of the run: they
\* differ in attempts and in unhealthyStatuses.
OldLabelPreProps ==
  { [attempts |-> PreDeployAttempts, unhealthyStatuses |-> Some({"Severe"})] }

OldLabelPostProps ==
  { [attempts |-> PostDeployAttempts, unhealthyStatuses |-> None] }

\* An environment that is Ready, not in Severe, and on the label it ran before.
OldLabelReports ==
  { [Status |-> Some("Ready"), HealthStatus |-> Some("Ok"),      VersionLabel |-> OLD_VERSION],
    [Status |-> Some("Ready"), HealthStatus |-> Some("Warning"), VersionLabel |-> OLD_VERSION] }

\* The Environments list of a response that returns every requested
\* environment with such a report.
OldLabelLists(envNames) ==
  { [i \in DOMAIN envNames |-> EnvironmentDescription(envNames[i], f[i])] :
      f \in [DOMAIN envNames -> OldLabelReports] }

InitOldLabel ==
  /\ Init
  /\ props.force = Some(TRUE)

getGroupHealthOldLabel ==
  /\ pc \in GateStages
  /\ gate.at = "await"
  /\ \E l \in OldLabelLists(GateEnvNames) :
       getGroupHealthResumes([rejected |-> FALSE, Environments |-> Some(l)])

NextOldLabel ==
  \/ createAppVersionsForGroup
  \/ \E i \in 1..MaxEnvs, resp \in DescribeVersionsResponses : create(i, resp)
  \/ \E i \in 1..MaxEnvs, resp \in StatusResponses : createApplicationVersion(i, resp)
  \/ createAppVersionsSettledWith(OldLabelPreProps)
  \/ waitForGroupHealthiness
  \/ getGroupHealthSend
  \/ getGroupHealthOldLabel
  \/ waitForGroupHealthinessSettle
  \/ sleep
  \/ deployAppVersionsToGroup
  \/ \E i \in 1..MaxEnvs, resp \in StatusResponses : deploy(i, resp)
  \/ deployAppVersionsSettledWith(OldLabelPostProps)

SpecOldLabel == InitOldLabel /\ [][NextOldLabel]_vars

\* C29: the two health checks of a run are configured apart.  The pre-deploy
\* check runs with the attempts and unhealthy statuses of
\* preDeployHealthCheckProps and never compares labels: environments that are
\* Ready and healthy by its unhealthy statuses, on the old label, are all
\* healthy to it, and it returns in its first round without a sleep.  The
\* post-deploy check runs with the attempts and unhealthy statuses of
\* postDeployHealthCheckProps and compares labels: the same environments are
\* all unhealthy to it, and it never returns.
C29_ChecksConfiguredApart ==
  /\ (gate.at # "idle" /\ ~gate.checkVersion) =>
       /\ \A hc \in OldLabelPreProps :
            gate.attempts = hc.attempts /\ gate.unhealthyStatuses = hc.unhealthyStatuses
       /\ gate.attempt = 1
       /\ gate.at # "threw"
       /\ RoundComplete =>
            /\ gate.statuses.unhealthy = <<>>
            /\ Len(gate.statuses.healthy) = Len(props.environments)
  /\ gate.checkVersion =>
       /\ pc \in {"postDeployHealthcheck", "resolved", "rejected"}
       /\ \A hc \in OldLabelPostProps :
            gate.attempts = hc.attempts /\ gate.unhealthyStatuses = hc.unhealthyStatuses
       /\ RoundComplete =>
            /\ gate.statuses.healthy = <<>>
            /\ Len(gate.statuses.unhealthy) = Len(props.environments)
       /\ props.environments # <<>> => gate.at # "returned" /\ pc # "resolved"
  /\ \A k \in DOMAIN sleeps : sleeps[k] = "postDeployHealthcheck"

\* The pre-deploy check passed two environments on the old label in its one
\* round; the post-deploy check found both unhealthy on each of its three
\* attempts and the run was rejected.
C29_Witness ==
  /\ pc = "rejected"
  /\ gate.checkVersion
  /\ Len(props.environments) = 2
  /\ Len(Lookups("preDeployHealthcheck")) = Cardinality(GroupApps)
  /\ gate.attempt = PostDeployAttempts
  /\ sleeps = <<"postDeployHealthcheck", "postDeployHealthcheck">>
  /\ Len(gate.error[1].errors) = 2

\* The sleeps of the running health check.
SleepsOfGate == SelectSeq(sleeps, LAMBDA stage : stage = GateStage)

\* Every environment of the group was found healthy in this round.
AllFoundHealthy == Len(gate.statuses.healthy) = Len(props.environments)

\* C30: a health check of a real run returns at the end of the first round
\* in which every environment is healthy, without a sleep and without another
\* DescribeEnvironments request; after a round that is not the last and in
\* which an environment is not healthy it sleeps once and starts the next
\* attempt; after its last round it does not sleep.  So it has slept once
\* for each attempt before the current one: at most attempts - 1 times.
C30_ReturnsAtOnceSleepsBetween ==
  /\ [](gate.at # "idle" => Len(SleepsOfGate) = gate.attempt - 1)
  /\ []((gate.at # "idle" /\ gate.attempts >= 1) => Len(SleepsOfGate) <= gate.attempts - 1)
  /\ []((Force /\ gate.at = "returned") =>
          Len(Lookups(GateStage)) = gate.attempt * Cardinality(GroupApps))
  /\ [][ /\ (Force /\ RoundComplete) =>
              /\ sleeps' = sleeps
              /\ calls' = calls
              /\ IF AllFoundHealthy THEN gate'.at = "returned"
                 ELSE IF gate.attempt < gate.attempts
                 THEN gate'.at = "sleep" /\ gate'.attempt = gate.attempt
                 ELSE gate'.at = "threw"
         /\ gate.at = "sleep" =>
              /\ sleeps' = Append(sleeps, GateStage)
              /\ calls' = calls
              /\ gate'.at = "for"
              /\ gate'.attempt = gate.attempt + 1
         /\ sleeps' # sleeps => gate.at = "sleep"
         /\ (gate.at = "returned" /\ gate'.at = "returned") =>
              Lookups(GateStage)' = Lookups(GateStage)
    ]_vars

\* A check with two attempts found an environment unhealthy in its first
\* round, slept once, and returned at the end of its second round.
C30_Witness ==
  /\ Force
  /\ gate.at = "returned"
  /\ gate.checkVersion
  /\ gate.attempts = 2
  /\ gate.attempt = 2
  /\ SleepsOfGate = <<"postDeployHealthcheck">>
  /\ Len(Lookups("postDeployHealthcheck")) = 2 * Cardinality(GroupApps)
  /\ Cardinality(GroupApps) = 2

\* C31: the existence check and the errorIfExists rule apply in a dry run too.
\* With force = false every application is looked up with
\* DescribeApplicationVersions; when the version is found for an application
\* while errorIfExists is true, that application's task is rejected with the
\* "it already exists" DBCreateApplicationVersionError, the run never leaves
\* provisioning except by being rejected with an aggregate holding that error,
\* and no DescribeEnvironments request is sent.
C31_DryRunExistingVersionFails ==
  props.force = Some(FALSE) =>
    /\ pc # "deployToGroup" =>
         \A i \in DOMAIN versionTasks :
           Len(SentFor("DescribeApplicationVersions", versionTasks[i].app)) = 1
    /\ (props.errorIfExists /\ FoundExisting # {}) =>
         /\ \A i \in FoundExisting :
              /\ versionTasks[i].state = "rejected"
              /\ versionTasks[i].reason = Some(AlreadyExists(versionTasks[i].app))
         /\ pc \in {"createAppVersions", "rejected"}
         /\ Sent("DescribeEnvironments") = <<>>
         /\ pc = "rejected" =>
              /\ outcome # None
              /\ outcome[1].type = "DBError"
              /\ \A i \in FoundExisting :
                   \E k \in DOMAIN outcome[1].errors :
                     outcome[1].errors[k] = AlreadyExists(versionTasks[i].app)

\* A dry run over two applications with errorIfExists found the version of one
\* of them only, and was rejected with that application's error alone.
C31_Witness ==
  /\ props.force = Some(FALSE)
  /\ props.errorIfExists
  /\ Len(versionTasks) = 2
  /\ Cardinality(FoundExisting) = 1
  /\ \E i \in DOMAIN versionTasks : versionTasks[i].exists = Some(FALSE)
  /\ pc = "rejected"
  /\ Len(outcome[1].errors) = 1
  /\ calls # <<>>
  /\ Sent("DescribeEnvironments") = <<>>

\* The index of the first environment of an application in the group.
FirstEnvOf(app) ==
  CHOOSE i \in DOMAIN props.environments :
    /\ props.environments[i].app = app
    /\ \A j \in 1..(i - 1) : props.environments[j].app # app

\* The round (attempt, counted from 0) the k-th lookup of a stage belongs to.
RoundOf(k) == (k - 1) \div Cardinality(GroupApps)

\* The lookups of the check under way are answered but for the one awaited:
\* attempt - 1 full rounds, then one lookup for each application up to
\* gate.key, the one at gate.key only once it is sent.
OneLookupInFlight ==
  LET n == Cardinality(GroupApps)
      sent == Len(Lookups(GateStage))
  IN /\ gate.at = "getGroupHealth" => sent = (gate.attempt - 1) * n + gate.key - 1
     /\ gate.at = "await" => sent = (gate.attempt - 1) * n + gate.key
     /\ (gate.at = "threw" /\ gate.error[1].msg = "Could not check group health.") =>
          /\ sent = (gate.attempt - 1) * n + gate.key
          /\ gate.key <= n
          /\ pc = "rejected"

\* A DescribeEnvironments request is sent only by getGroupHealth between two
\* awaits, one at a time, and none once the check has thrown.
LookupsOneAfterAnother ==
  Sent("DescribeEnvironments")' # Sent("DescribeEnvironments") =>
    /\ gate.at = "getGroupHealth"
    /\ gate'.at = "await"
    /\ Len(Sent("DescribeEnvironments")') = Len(Sent("DescribeEnvironments")) + 1

ResponseObserved == observed.requested > 0

\* More environments than were asked for.
ResponseLong == observed.returned > observed.requested

\* As many environments as were asked for, but not all of those asked for.
ResponseMisnamed == observed.returned = observed.requested /\ observed.absent # <<>>

\* C33: the missing-environment check compares counts only. A
\* DescribeEnvironments response carrying a list fails the check at once with
\* the "do not exist or were not found" error exactly when the number of
\* environments it holds differs from the number asked for for that application:
\* a response with more environments than asked for fails it as well, with an
\* empty list of missing names when all those asked for are there, and a
\* response with the right count and a wrong name is not reported as missing (a
\* dry run goes on to the next application).
C33_CountsOnly ==
  ResponseObserved =>
    /\ (gate.at = "threw" /\ gate.error = Some(AbsentError))
         <=> observed.returned # observed.requested
    /\ observed.returned # observed.requested =>
         /\ Len(gate.error[1].errors) = 1
         /\ RejectedWithGateError(AbsentError)
         /\ Len(SleepsOfGate) = gate.attempt - 1
    /\ (ResponseLong /\ observed.absent = <<>>) =>
         gate.error[1].errors[1].target = <<>>
    /\ ResponseMisnamed =>
         /\ gate.error # None =>
              gate.error[1].errors[1].msg
                # "The following Beanstalk Environments either do not exist or were not found"
         /\ ~Force => gate.at \in {"getGroupHealth", "returned"}

\* The response of the first attempt of a real pre-deploy check with two
\* attempts held every environment asked for and one more: the check threw
\* with an empty list of missing names.
C33_Witness ==
  /\ ResponseLong
  /\ observed.absent = <<>>
  /\ Force
  /\ ~gate.checkVersion
  /\ gate.attempts = 2
  /\ gate.attempt = 1
  /\ gate.at = "threw"
  /\ gate.error[1].errors[1].target = <<>>
  /\ pc = "rejected"

(* ---------- a health check over environments of fixed reports ---------- *)

\* A run has reached one of its health checks: waitForGroupHealthiness has
\* been called by preDeployHealthcheck after the versions were provisioned,
\* or by postDeployHealthcheck after a pre-deploy check of one round and the
\* triggers, none of which failed.  response holds what DescribeEnvironments
\* will report of each environment of the group, whenever it is asked.
CalledWithReports(healthCheckPropsGiven, reports) ==
  /\ props \in { p \in DeployToGroupProps : p.environments # <<>> }
  /\ pc \in GateStages
  /\ \E healthCheckProps \in healthCheckPropsGiven : gate = Called(pc, healthCheckProps)
  /\ LET envs == props.environments
         apps == appsWithCreatedVersions(envs)
         keys == ForInKeys(envs)
         described == [i \in DOMAIN apps |-> DescribeApplicationVersionsCommand(apps[i])]
         created == IF SendsCreateApplicationVersion(DryRun)
                    THEN [i \in DOMAIN apps |-> CreateApplicationVersionCommand(apps[i])]
                    ELSE <<>>
         lookedUp == [k \in DOMAIN keys |->
                        DescribeEnvironmentsCommand(keys[k], EnvNamesOfApp(envs, keys[k]), "preDeployHealthcheck")]
         updated == IF SendsUpdateEnvironment(Force)
                    THEN [i \in DOMAIN envs |-> UpdateEnvironmentCommand(envs[i])]
                    ELSE <<>>
     IN /\ versionTasks = [i \in DOMAIN apps |->
                            [app |-> apps[i], state |-> "fulfilled", exists |-> Some(FALSE), reason |-> None]]
        /\ deployTasks = IF pc = "postDeployHealthcheck" THEN [i \in DOMAIN envs |-> "settled"] ELSE <<>>
        /\ calls = IF pc = "postDeployHealthcheck"
                   THEN described \o created \o lookedUp \o updated
                   ELSE described \o created
        /\ response \in { Some([i \in DOMAIN envs |-> EnvironmentDescription(envs[i].name, f[i])]) :
                            f \in [DOMAIN envs -> reports] }
  /\ triggerErr = <<>>
  /\ deployErrs = <<>>
  /\ sleeps = <<>>
  /\ observed = NoObservation
  /\ outcome = None

\* The check is called with any HealthCheckProps, the environments report
\* anything.
InitReports == CalledWithReports(HealthCheckProps, EnvReports)

\* What response reports of the environments named.
ReportsOf(envNames) ==
  [i \in DOMAIN envNames |->
     (SelectSeq(response[1], LAMBDA envDesc : envDesc.EnvironmentName = envNames[i]))[1]]

\* getGroupHealth resumes with a response that holds every environment asked
\* for, each as response reports it.
getGroupHealthReports ==
  /\ pc \in GateStages
  /\ gate.at = "await"
  /\ getGroupHealthResumes([rejected |-> FALSE, Environments |-> Some(ReportsOf(GateEnvNames))])

NextReports ==
  \/ waitForGroupHealthiness
  \/ getGroupHealthSend
  \/ getGroupHealthReports
  \/ waitForGroupHealthinessSettle
  \/ sleep

SpecReports == InitReports /\ [][NextReports]_vars

\* The environments of a list that carry no Status or no HealthStatus.
WithoutStatus(Environments) ==
  SelectSeq(Environments, LAMBDA envDesc : envDesc.Status = None \/ envDesc.HealthStatus = None)

\* The error getEnvironmentsHealth throws for the environment name.
StatusError(name) == Error("status could not be retrieved", <<name>>)

\* The lookups of the check under way that were answered.
Answered ==
  SubSeq(Lookups(GateStage), 1, Len(Lookups(GateStage)) - (IF gate.at = "await" THEN 1 ELSE 0))

\* A lookup of the check under way was answered with an environment without
\* status.
AnsweredWithoutStatus ==
  \E k \in DOMAIN Answered : WithoutStatus(ReportsOf(Answered[k].names)) # <<>>

\* C34: in a check of at least one attempt whose responses hold every
\* environment asked for, as soon as a response with an environment that
\* carries no Status or no HealthStatus has arrived, a real run has failed the
\* check on that attempt, whatever attempts remain: the check has thrown the
\* DBHealthinessCheckError holding exactly one sub-error, the status error of
\* such an environment, on the attempt of that response and with no sleep
\* after it, and the run is rejected. A dry run does not look at the response:
\* its check never throws, a round that went through every application is
\* followed by the return, and the check has returned after one round without
\* any sleep.
C34_MissingStatusFailsAtOnce ==
  /\ [](  gate.attempts >= 1 =>
          /\ (Force /\ AnsweredWithoutStatus) =>
               /\ gate.at = "threw"
               /\ gate.error[1].type = "DBHealthinessCheckError"
               /\ gate.error[1].msg = "Could not check group health."
               /\ Len(gate.error[1].errors) = 1
               /\ \E i \in DOMAIN WithoutStatus(response[1]) :
                    gate.error[1].errors[1] = StatusError(WithoutStatus(response[1])[i].EnvironmentName)
               /\ WithoutStatus(ReportsOf(Answered[Len(Answered)].names)) # <<>>
               /\ Len(SleepsOfGate) = gate.attempt - 1
               /\ RejectedWithGateError(gate.error[1])
          /\ ~Force =>
               /\ gate.at # "threw"
               /\ gate.error = None
               /\ gate.attempt = 1
               /\ sleeps = <<>>
               /\ gate.at = "returned" => Len(Answered) = Cardinality(GroupApps) )
  /\ [][(~Force /\ gate.attempts >= 1 /\ RoundComplete) => gate'.at = "returned"]_vars

\* The first attempt of a real post-deploy check with two attempts met an
\* environment without status: the check threw the status error and the run
\* was rejected, one attempt being left.
C34_Witness ==
  /\ Force
  /\ gate.checkVersion
  /\ gate.attempts = 2
  /\ gate.attempt = 1
  /\ AnsweredWithoutStatus
  /\ gate.at = "threw"
  /\ \E i \in DOMAIN props.environments :
       gate.error = Some(CouldNotCheck(StatusError(props.environments[i].name)))
  /\ sleeps = <<>>
  /\ pc = "rejected"

(* ----------------- a health check of any number of attempts ------------- *)

\* How far below zero the attempts a caller passes go: attempts is a number,
\* which the code does not validate.
MaxBelowZero == 1

\* HealthCheckProps with attempts of any sign.
AnyHealthCheckProps ==
  [attempts : (0 - MaxBelowZero)..MaxAttempts, unhealthyStatuses : {None, Some({"Severe"})}]

\* An environment that is ready, healthy and on the expected label, and one
\* that is being updated.
SteadyReports ==
  { [Status |-> Some("Ready"),    HealthStatus |-> Some("Ok"), VersionLabel |-> Label],
    [Status |-> Some("Updating"), HealthStatus |-> Some("Ok"), VersionLabel |-> Label] }

InitAttempts == CalledWithReports(AnyHealthCheckProps, SteadyReports)

SpecAttempts == InitAttempts /\ [][NextReports]_vars

\* The error thrown after the for loop of waitForGroupHealthiness.
ReachedEndOfLoop ==
  DBHealthinessCheckError("Unexpected error checking group health.",
                          <<Error("Reached end of for loop...should never.", <<>>)>>)

\* C35: a health check called with attempts <= 0 sends no DescribeEnvironments
\* request and does not sleep; its next step throws the DBHealthinessCheckError
\* "Unexpected error checking group health." holding exactly one sub-error,
\* "Reached end of for loop...should never.", and the run is rejected with it,
\* in a real run and in a dry run alike, whatever the environments would
\* report, every one healthy included.
C35_NoAttemptsFails ==
  /\ [](gate.attempts <= 0 =>
          /\ gate.at \in {"for", "threw"}
          /\ gate.attempt = 1
          /\ Lookups(GateStage) = <<>>
          /\ SleepsOfGate = <<>>
          /\ gate.at = "threw" =>
               /\ gate.error = Some(ReachedEndOfLoop)
               /\ Len(gate.error[1].errors) = 1
               /\ RejectedWithGateError(ReachedEndOfLoop))
  /\ [][(gate.attempts <= 0 /\ gate.at = "for") =>
          /\ gate'.at = "threw"
          /\ pc' = "rejected"
          /\ calls' = calls]_vars

\* A real pre-deploy check with attempts = 0 over two environments that
\* would both report healthy threw the error of the end of the loop.
C35_Witness ==
  /\ gate.attempts = 0
  /\ Force
  /\ ~gate.checkVersion
  /\ Len(props.environments) = 2
  /\ \A i \in DOMAIN response[1] :
       response[1][i].Status = Some("Ready") /\ response[1][i].HealthStatus = Some("Ok")
  /\ gate.at = "threw"
  /\ gate.error = Some(ReachedEndOfLoop)
  /\ Sent("DescribeEnvironments") = <<>>
  /\ pc = "rejected"

\* An aggregate (a DBError or one of its subclasses with an errors list) holds
\* at least one sub-error, and so do the aggregates it holds.
RECURSIVE HoldsSubErrors(_)
HoldsSubErrors(e) ==
  /\ InstanceOfDBError(e) => e.errors # <<>>
  /\ \A i \in DOMAIN e.errors : HoldsSubErrors(e.errors[i])

\* C36: every aggregate error deployToGroup or one of its stages throws holds
\* at least one sub-error, and so does every aggregate inside it. The trigger
\* aggregate is noted by deploySteps only when a trigger failure was pushed to
\* it, the deploySteps aggregate is thrown only when it holds an error, the
\* provisioning aggregate only when a create() was rejected, and the
\* health-check aggregate of the last attempt names at least one unhealthy
\* environment: whenever a round of a real run has looked every application
\* up, the healthy and the unhealthy environments add up to the group.
C36_AggregatesHoldSubErrors ==
  /\ outcome # None => HoldsSubErrors(outcome[1])
  /\ gate.error # None => HoldsSubErrors(gate.error[1])
  /\ \A i \in DOMAIN deployErrs :
       /\ HoldsSubErrors(deployErrs[i])
       /\ deployErrs[i].type = "DBGroupDeployTriggerError" =>
            (triggerErr # <<>> /\ deployErrs[i].errors = triggerErr)
  /\ (outcome # None /\ outcome[1].msg = "deploySteps(): ") =>
       (deployErrs # <<>> /\ outcome[1].errors = deployErrs)
  /\ (outcome # None /\ outcome[1].msg = "At least one async process failed") =>
       RejectedTasks # {}
  /\ (Force /\ RoundComplete) =>
       Len(gate.statuses.healthy) + Len(gate.statuses.unhealthy) = Len(props.environments)
  /\ (gate.error # None /\ gate.error[1].msg = NotHealthyAfterAttempts) =>
       /\ Len(gate.error[1].errors) >= 1
       /\ \A k \in DOMAIN gate.error[1].errors :
            \E i \in DOMAIN props.environments \cup {0} :
              gate.error[1].errors[k].target
                = <<IF i = 0 THEN Unrequested ELSE props.environments[i].name>>

\* A real run was rejected by deploySteps with two aggregates, the trigger
\* aggregate holding the one failed trigger and the health-check aggregate of
\* the last attempt holding the two environments found unhealthy.
C36_Witness ==
  /\ Force
  /\ pc = "rejected"
  /\ outcome[1].msg = "deploySteps(): "
  /\ Len(outcome[1].errors) = 2
  /\ outcome[1].errors[1].type = "DBGroupDeployTriggerError"
  /\ Len(outcome[1].errors[1].errors) = 1
  /\ outcome[1].errors[2].type = "DBHealthinessCheckError"
  /\ gate.error[1].msg = NotHealthyAfterAttempts
  /\ Len(outcome[1].errors[2].errors) = 2

\* C37: for a group with no environments deployToGroup sends no request of
\* any kind and starts no task, in a real run and in a dry run; it goes on
\* through its stages and can be rejected only by a health check called with
\* attempts <= 0, so that with attempts >= 1 in both health configurations it
\* resolves: both checks return on their first attempt with no lookup and no
\* sleep.
C37_EmptyGroupSucceeds ==
  props.environments = <<>> =>
    /\ calls = <<>>
    /\ sleeps = <<>>
    /\ versionTasks = <<>>
    /\ deployTasks = <<>>
    /\ triggerErr = <<>>
    /\ pc # "rejected" => deployErrs = <<>>
    /\ gate.at # "idle" => gate.attempt = 1
    /\ (gate.at # "idle" /\ gate.attempts >= 1) => gate.at \in {"for", "getGroupHealth", "returned"}
    /\ pc = "rejected" => gate.attempts <= 0
    /\ pc = "resolved" => (outcome = None /\ gate.checkVersion /\ gate.at = "returned")
    /\ ~Terminated => ENABLED Next

\* A real run over the empty group resolved, the post-deploy check of two
\* attempts having returned, with no request sent.
C37_Witness ==
  /\ props.environments = <<>>
  /\ Force
  /\ pc = "resolved"
  /\ gate.checkVersion
  /\ gate.attempts = 2
  /\ gate.at = "returned"
  /\ calls = <<>>

\* The environment of the group with the name given.
EnvNamed(name) == CHOOSE i \in DOMAIN props.environments : props.environments[i].name = name

\* deployToGroup was rejected by createAppVersionsForGroup.
RejectedInProvisioning ==
  /\ pc = "rejected"
  /\ outcome # None
  /\ outcome[1].msg = "At least one async process failed"

\* A deploy() fails: it settles and its error goes to the end of triggerErr.
TriggerFails ==
  \E i \in DOMAIN deployTasks :
    /\ deployTasks[i] = "updating"
    /\ deployTasks' = [deployTasks EXCEPT ![i] = "settled"]
    /\ Len(triggerErr') = Len(triggerErr) + 1
    /\ SubSeq(triggerErr', 1, Len(triggerErr)) = triggerErr
    /\ triggerErr'[Len(triggerErr')].type = "DBTriggerDeployError"
    /\ triggerErr'[Len(triggerErr')].target = <<props.environments[i].name>>

\* C38: the order of sub-errors depends on the stage. The aggregate of
\* provisioning holds one DBCreateApplicationVersionError for each rejected
\* create(), in the order of the first occurrence of their applications in the
\* group, whatever the order in which the requests were answered. The trigger
\* aggregate holds the DBTriggerDeployErrors in the order in which the deploy()
\* calls failed: each failure goes to the end of the list when it happens, the
\* aggregate noted by deploySteps holds that list as it is, and its order can
\* be the reverse of that of the environments in the group.
C38_OrderOfSubErrors ==
  /\ [](RejectedInProvisioning =>
          LET errs == outcome[1].errors
          IN /\ Len(errs) = Cardinality(RejectedTasks)
             /\ \A k \in DOMAIN errs :
                  /\ errs[k].type = "DBCreateApplicationVersionError"
                  /\ \E i \in RejectedTasks : errs[k].target = <<versionTasks[i].app>>
             /\ \A k, l \in DOMAIN errs :
                  k < l => FirstEnvOf(errs[k].target[1]) < FirstEnvOf(errs[l].target[1]))
  /\ [](\A i \in DOMAIN deployErrs :
          deployErrs[i].type = "DBGroupDeployTriggerError" => deployErrs[i].errors = triggerErr)
  /\ [][triggerErr' # triggerErr => TriggerFails]_vars

\* The triggers of both environments of a group failed, that of the second
\* environment first, and the run was rejected with a trigger aggregate that
\* lists the second environment before the first.
C38_Witness ==
  /\ pc = "rejected"
  /\ Len(props.environments) = 2
  /\ outcome[1].msg = "deploySteps(): "
  /\ outcome[1].errors[1].type = "DBGroupDeployTriggerError"
  /\ Len(outcome[1].errors[1].errors) = 2
  /\ EnvNamed(outcome[1].errors[1].errors[1].target[1]) = 2
  /\ EnvNamed(outcome[1].errors[1].errors[2].target[1]) = 1

====
